---- MODULE Spec2Model ----
(***************************************************************************)
(* State-machine model of openmdao.main.objserverfactory:                  *)
(*   - ObjServerFactory (registry _managers, create / release / cleanup),  *)
(*     checked under the specification Spec;                               *)
(*   - ObjServer (sandboxed file operations, execute_command, load_model), *)
(*     checked under the specification SpecServer;                         *)
(*   - start_server and the server subprocess it spawns (main), step by    *)
(*     step, checked under the specification SpecStart;                    *)
(*   - concurrent calls of create / release / cleanup on one factory, step *)
(*     by step, checked under the specification SpecConc.                  *)
(* Under Spec and SpecServer every action models one whole method call.    *)
(***************************************************************************)
EXTENDS Integers, Sequences, FiniteSets, TLC

\* ------------------------------------------------------------------ bounds

\* Number of server subprocesses the factory may spawn in one behaviour.
MaxSpawn == 2
\* Longest candidate path, in segments, handed to an ObjServer operation.
MaxPathLen == 1
\* Number of models load_model may load in one behaviour.
MaxModels == 2
\* Largest startup timeout, in seconds, handed to start_server.
MaxTimeout == 1
\* Number of factory calls the concurrent clients start in one behaviour.
MaxCalls == 3

\* ------------------------------------------------------- factory: values

Users == {"u1", "u2"}
Keys == {"k1", "k2"}
\* rbac credentials: a user identifier plus public-key material. User u1 is
\* seen with two different keys, user u2 with one.
Credentials == {c \in [user : Users, key : Keys] : c.user = "u2" => c.key = "k1"}

NoCreds == [user |-> "u1", key |-> "k1"]

Local == "local"
Remote == "remote"
Hosts == {Local, Remote}
Pids == 1 .. MaxSpawn

\* A reference handed to release(): the proxy the factory registered
\* (alias = FALSE, host = Local), another proxy for the same remote object
\* (alias = TRUE), or a server of some other host that has pid 1.
Refs == {r \in [host : Hosts, pid : Pids, alias : BOOLEAN] :
            r.host = Remote => (r.alias /\ r.pid = 1)}

NoRef == [host |-> Remote, pid |-> 1, alias |-> TRUE]

\* Root directory names: base 0 is a caller-supplied name, base n >= 1 is the
\* default 'Server_n'; n = 1 is the plain name, n >= 2 the name with suffix _n.
DirNames == [base : 0 .. (MaxSpawn + 1), n : 1 .. (MaxSpawn + 1)]

EmptyReg == [p \in {} |-> 0]

VARIABLES
    managers,   \* ObjServerFactory._managers: pid of key proxy -> (root_dir, owner)
    alive,      \* pids of the server subprocesses started and not shut down
    closers,    \* pids of the proxies whose _close finalizer is still pending
    dirs,       \* directories existing in the factory's working directory
    keep_dirs,  \* OPENMDAO_KEEPDIRS is non-zero
    creds,      \* rbac credentials of the handling thread
    nspawn,     \* subprocesses spawned so far (the next pid is nspawn + 1)
    released,   \* servers a release() has released and returned normally
    last,       \* what the last factory call was given and what it did
    root_dir,   \* ObjServer._root_dir, in path segments
    allow_shell,\* ObjServer._allow_shell
    tlo,        \* ObjServer.tlo (0 is None)
    predel,     \* objects whose pre_delete hook has been invoked
    nload,      \* models created by load_model so far
    slast,      \* what the last ObjServer call was given and what it did
    port_ge0,   \* start_server: port >= 0
    users_given,\* start_server: allowed_users is not None
    timeout,    \* start_server: timeout, in seconds
    spc,        \* start_server: the statement to execute next
    retry,      \* start_server: retry
    key_file,   \* prefix.key exists
    cfg_file,   \* prefix.cfg: "absent", "empty" or "full"
    out_file,   \* prefix.out exists
    sub,        \* stage of the spawned subprocess ("none": not spawned)
    exit_code,  \* exit status of the subprocess once it has exited
    early_exit, \* the subprocess ended by itself before writing prefix.cfg
    sres,       \* what start_server returned or raised
    sexit,      \* the statement outside the polling loop that raised
    threads,    \* per client thread: position and locals of its factory call
    ncalls,     \* factory calls started by the client threads so far
    proxies,    \* _PROXIES: location -> proxy
    nconn,      \* manager connections made by connect() so far
    handed,     \* connect() calls before the last one that returned a proxy
    cncalls,    \* connect() calls made so far
    clast,      \* what the last connect() was given and what it did
    lthreads,   \* per server thread: position and locals of its load_model call
    hooks,      \* per object: pre_delete invocations so far
    replaced,   \* objects load_model has replaced, with their pre_delete count then
    lcalls,      \* load_model calls started by the server threads so far
    epc,        \* execute_command, statement by statement: the statement to execute next
    etimeout,   \* execute_command: timeout, in seconds
    edelay,     \* execute_command: poll_delay, in seconds
    waited,     \* seconds process.wait has slept so far
    child,      \* the process of the command: none, running, exited or terminated
    eres,       \* what execute_command returned: none, code or timeout
    ecalls,      \* execute_command calls started so far
    rlast,      \* the last invocation from the network: class, method, role and outcome
    rcalls,      \* invocations from the network so far
    mpc,        \* main(): the statement to execute next
    allow_public,\* main(): --allow-public was given
    mport_ge0,  \* main(): options.port >= 0
    users_file, \* the allowed-users file: missing, empty or ok
    hosts_file, \* the allowed-hosts file: missing, empty, unreadable or ok
    mkeep,      \* OPENMDAO_KEEPDIRS is non-zero in the subprocess
    mretries,   \* main(): retries
    nfail,      \* get_server calls that failed with 'Address already in use'
    manager_made,\* main() has created the _FactoryManager
    bound,      \* get_server has returned the server: the listener is bound
    handler,    \* the SIGTERM handler is installed
    mcfg,       \* the configuration file exists
    mexit,      \* how the subprocess ended (running: it has not)
    mwhy,        \* what ended the subprocess
    src,        \* per module: what its source file holds
    fmtime,     \* per module: modification time of its source file
    class_map,  \* PythonSourceTreeAnalyser.class_map: class name -> ClassInfo or class name
    fileinfo,   \* PythonSourceTreeAnalyser.fileinfo: file name -> (analyser, modtime)
    files_count,\* PythonSourceTreeAnalyser.files_count
    analysed,   \* per module: the analyser and modification time of its last analysis
    dcalls,     \* calls made on the tree analyser so far
    dlast,       \* what the last call on the tree analyser was given and what it did
    stale_cfg   \* prefix.cfg existed when start_server was entered

facvars == <<managers, alive, closers, dirs, keep_dirs, creds, nspawn,
            released, last>>
srvvars == <<root_dir, allow_shell, tlo, predel, nload, slast>>
startvars == <<port_ge0, users_given, timeout, spc, retry, key_file, cfg_file,
               out_file, sub, exit_code, early_exit, sres, sexit>>
thrvars == <<threads, ncalls>>
connvars == <<proxies, nconn, handed, cncalls, clast>>
loadvars == <<lthreads, hooks, replaced, lcalls>>
execvars == <<epc, etimeout, edelay, waited, child, eres, ecalls>>
rbacvars == <<rlast, rcalls>>
mainvars == <<mpc, allow_public, mport_ge0, users_file, hosts_file, mkeep, mretries, nfail, manager_made, bound, handler, mcfg, mexit, mwhy>>
depvars == <<src, fmtime, class_map, fileinfo, files_count, analysed, dcalls, dlast>>
entryvars == <<stale_cfg>>
\* The variables of the other parts of the module.
extvars == <<connvars, loadvars, execvars, rbacvars, mainvars, depvars, entryvars>>
\* What a call of connect() leaves alone.
connframe == <<facvars, srvvars, startvars, thrvars, loadvars,
    execvars, rbacvars, mainvars, depvars, entryvars>>
\* What the tree analyser of dep.py leaves alone.
depframe == <<facvars, srvvars, startvars, thrvars, connvars, loadvars,
    execvars, rbacvars, mainvars, entryvars>>
\* What main() in the subprocess leaves alone.
mainframe == <<facvars, srvvars, startvars, thrvars, connvars, loadvars,
    execvars, rbacvars, depvars, entryvars>>
\* What the access check of a call leaves alone.
rbacframe == <<facvars, srvvars, startvars, thrvars, connvars, loadvars,
    execvars, mainvars, depvars, entryvars>>
\* What execute_command leaves alone outside the server.
execframe == <<facvars, startvars, thrvars, connvars, loadvars,
    rbacvars, mainvars, depvars, entryvars>>
\* What load_model leaves alone outside the server.
loadframe == <<facvars, startvars, thrvars, connvars, execvars,
    rbacvars, mainvars, depvars, entryvars>>
vars == <<managers, alive, closers, dirs, keep_dirs, creds, nspawn, released,
          last,
          root_dir, allow_shell, tlo, predel, nload, slast,
          port_ge0, users_given, timeout, spc, retry, key_file, cfg_file,
          out_file, sub, exit_code, early_exit, sres, sexit,
          threads, ncalls,
          proxies, nconn, handed, cncalls, clast,
          lthreads, hooks, replaced, lcalls,
          epc, etimeout, edelay, waited, child, eres, ecalls,
          rlast, rcalls,
          mpc, allow_public, mport_ge0, users_file, hosts_file, mkeep, mretries, nfail, manager_made, bound, handler, mcfg, mexit, mwhy,
          src, fmtime, class_map, fileinfo, files_count, analysed, dcalls, dlast,
          stale_cfg>>

\* --------------------------------------------------- factory: release()

RegAdd_Replace(m, pid, rec) == [p \in {pid} |-> rec]
RegAdd(m, pid, rec) ==
    [p \in (DOMAIN m) \cup {pid} |-> IF p = pid THEN rec ELSE m[p]]

\* del self._managers[server]
DelManager_Kept(m, pid) == m
DelManager(m, pid) == [p \in (DOMAIN m) \ {pid} |-> m[p]]

\* get_credentials().user != owner.user
NotOwner_Unchecked(cur, owner) == FALSE
NotOwner(cur, owner) == cur.user /= owner.user

\* self._managers[server]: the argument is one of the registered proxies.
IsKey(m, server) ==
    /\ server.host = Local
    /\ ~server.alias
    /\ server.pid \in DOMAIN m

\* The for loop over self._managers.keys(): the registered proxy with the
\* argument's host and pid (0 when the loop falls through to its else).
MatchByHostPid_PidOnly(m, server) ==
    IF server.pid \in DOMAIN m THEN server.pid ELSE 0
MatchByHostPid(m, server) ==
    IF \E p \in DOMAIN m : Local = server.host /\ p = server.pid
    THEN CHOOSE p \in DOMAIN m : Local = server.host /\ p = server.pid
    ELSE 0

\* The registered proxy release() works on (0 when none is found).
Resolve(m, server) ==
    IF IsKey(m, server) THEN server.pid ELSE MatchByHostPid(m, server)

ReleaseFaults == {"none", "attr", "shutdown", "rmtree"}

ReleaseOp_ShutdownFirst(st, server, fault) ==
    LET m == st.managers
        pid == Resolve(m, server)
    IN  IF ~IsKey(m, server) /\ fault = "attr"
        THEN [st EXCEPT !.res = "ValueError"]
        ELSE IF pid = 0
        THEN [st EXCEPT !.res = "ValueError"]
        ELSE IF NotOwner(st.creds, m[pid].owner)
        THEN [st EXCEPT !.alive = st.alive \ {pid}, !.res = "RoleError"]
        ELSE [st EXCEPT !.alive = st.alive \ {pid},
                        !.closers = st.closers \ {pid},
                        !.managers = DelManager(m, pid),
                        !.res = "ok"]

\* ObjServerFactory.release(server) called with current credentials st.creds.
\* st is the factory state; fault names the external call that raises.
ReleaseOp(st, server, fault) ==
    LET m == st.managers
        pid == Resolve(m, server)
    IN  IF ~IsKey(m, server) /\ fault = "attr"
        THEN [st EXCEPT !.res = "ValueError"]
        ELSE IF pid = 0
        THEN [st EXCEPT !.res = "ValueError"]
        ELSE IF NotOwner(st.creds, m[pid].owner)
        THEN [st EXCEPT !.res = "RoleError"]
        ELSE IF fault = "shutdown"
        THEN [st EXCEPT !.res = "Exception"]
        ELSE LET rmtree == ~st.keep_dirs /\ m[pid].root_dir \in st.dirs
                 down == [st EXCEPT !.alive = st.alive \ {pid},
                                    !.closers = st.closers \ {pid},
                                    !.managers = DelManager(m, pid)]
             IN  IF rmtree /\ fault = "rmtree"
                 THEN [down EXCEPT !.res = "Exception"]
                 ELSE IF rmtree
                 THEN [down EXCEPT !.dirs = st.dirs \ {m[pid].root_dir},
                                   !.res = "ok"]
                 ELSE [down EXCEPT !.res = "ok"]

\* The factory state the operators work on, with what a call reports.
FacState ==
    [managers |-> managers, alive |-> alive, closers |-> closers,
     dirs |-> dirs, keep_dirs |-> keep_dirs, creds |-> creds,
     nspawn |-> nspawn, res |-> "ok", ran |-> {}, retkind |-> "none",
     retpid |-> 0, fwd |-> 0]

KeyRef(pid) == [host |-> Local, pid |-> pid, alias |-> FALSE]

\* The record of a factory call, before any call was made.
NoCall ==
    [op |-> "none", caller |-> NoCreds, server |-> NoRef, hasserver |-> FALSE,
     typname |-> FALSE, res |-> "ok", target |-> 0, owner |-> NoCreds,
     stale |-> FALSE, order |-> <<>>, ran |-> {}, retkind |-> "none",
     retpid |-> 0, fwd |-> 0]

\* --------------------------------------------------- factory: cleanup()

\* finally: set_credentials(cleanup_creds)
RestoreCreds_OnSuccessOnly(res, cur, cleanup_creds) ==
    IF res = "ok" THEN cleanup_creds ELSE cur
RestoreCreds(res, cur, cleanup_creds) == cleanup_creds

\* The for loop of cleanup() from position i of the key list `order`; the
\* release of server failAt (if any) raises at the external call `kind`.
RECURSIVE CleanupLoop(_, _, _, _, _, _)
CleanupLoop(st, order, i, failAt, kind, cleanup_creds) ==
    IF i > Len(order)
    THEN [st EXCEPT !.managers = EmptyReg, !.res = "ok"]
    ELSE LET pid == order[i]
             under == st.managers[pid].owner
             r == ReleaseOp([st EXCEPT !.creds = under], KeyRef(pid),
                            IF pid = failAt THEN kind ELSE "none")
             r2 == [r EXCEPT
                      !.creds = RestoreCreds(r.res, r.creds, cleanup_creds),
                      !.ran = st.ran \cup {[pid |-> pid, under |-> under,
                                            res |-> r.res]}]
         IN  IF r.res /= "ok"
             THEN r2
             ELSE CleanupLoop(r2, order, i + 1, failAt, kind, cleanup_creds)

\* ObjServerFactory.cleanup() called with current credentials st.creds.
CleanupOp(st, order, failAt, kind) ==
    CleanupLoop(st, order, 1, failAt, kind, st.creds)

\* The orders in which a dictionary's keys() may come.
RECURSIVE Perms(_)
Perms(S) ==
    IF S = {} THEN {<<>>}
    ELSE UNION {{<<x>> \o t : t \in Perms(S \ {x})} : x \in S}

\* ---------------------------------------------------- factory: create()

\* 'Server_%d' % (len(self._managers) + 1), or the caller's name.
ServerName(m, custom) ==
    IF custom >= 0 THEN custom ELSE Cardinality(DOMAIN m) + 1

\* root_dir = name; count = 1; while os.path.exists(root_dir): count += 1 ...
RECURSIVE RootDirFrom(_, _, _)
RootDirFrom(ds, base, count) ==
    IF [base |-> base, n |-> count] \in ds
    THEN RootDirFrom(ds, base, count + 1)
    ELSE [base |-> base, n |-> count]

RootDir_NoProbe(ds, base) == [base |-> base, n |-> 1]
RootDir(ds, base) == RootDirFrom(ds, base, 1)

CreateFaults == {"none", "mkdir", "start", "ctor", "create"}

\* The server.create(typname, ...) forwarded at the end of create(), or the
\* server itself when typname is empty.
ForwardCreate_Always(st, typname, server, fault) ==
    IF fault = "create" \/ (server.host = Local /\ server.pid \notin st.alive)
    THEN [st EXCEPT !.res = "Exception"]
    ELSE [st EXCEPT !.res = "ok", !.retkind = "object",
                    !.retpid = server.pid, !.fwd = server.pid]
ForwardCreate(st, typname, server, fault) ==
    IF ~typname
    THEN [st EXCEPT !.res = "ok", !.retkind = "server", !.retpid = server.pid]
    ELSE IF fault = "create" \/ (server.host = Local /\ server.pid \notin st.alive)
    THEN [st EXCEPT !.res = "Exception"]
    ELSE [st EXCEPT !.res = "ok", !.retkind = "object",
                    !.retpid = server.pid, !.fwd = server.pid]

\* ObjServerFactory.create(typname, server=server, name=custom) called with
\* current credentials st.creds; hasserver is `server is not None`.
CreateOp_IgnoresServer(st, typname, hasserver, server, custom, fault) ==
    LET dir == RootDir(st.dirs, ServerName(st.managers, custom))
        pid == st.nspawn + 1
        registered ==
            [st EXCEPT
               !.dirs = st.dirs \cup {dir}, !.nspawn = pid,
               !.alive = st.alive \cup {pid},
               !.managers = RegAdd(st.managers, pid,
                                   [root_dir |-> dir, owner |-> st.creds]),
               !.closers = st.closers \cup {pid}]
    IN  ForwardCreate(registered, typname, KeyRef(pid), fault)
CreateOp(st, typname, hasserver, server, custom, fault) ==
    IF hasserver
    THEN ForwardCreate(st, typname, server, fault)
    ELSE LET dir == RootDir(st.dirs, ServerName(st.managers, custom))
             pid == st.nspawn + 1
             made == [st EXCEPT !.dirs = st.dirs \cup {dir},
                                !.nspawn = st.nspawn + 1]
             started == [made EXCEPT !.alive = made.alive \cup {pid}]
             registered ==
                 [started EXCEPT
                    !.managers = RegAdd(st.managers, pid,
                                        [root_dir |-> dir, owner |-> st.creds]),
                    !.closers = started.closers \cup {pid}]
         IN  IF fault = "mkdir" THEN [st EXCEPT !.res = "Exception"]
             ELSE IF fault = "start" THEN [made EXCEPT !.res = "Exception"]
             ELSE IF fault = "ctor" THEN [started EXCEPT !.res = "Exception"]
             ELSE ForwardCreate(registered, typname, KeyRef(pid), fault)

\* ------------------------------------------------------ ObjServer: paths

\* A file name is a sequence of segments, each a sequence of characters,
\* absolute or relative to the working directory.
DotDot == <<".", ".">>
SegNames == {<<"b">>, <<"b", "c">>, DotDot}

RECURSIVE SeqsUpTo(_, _)
SeqsUpTo(S, n) ==
    IF n = 0 THEN {<<>>}
    ELSE SeqsUpTo(S, n - 1) \cup
         {Append(t, x) : t \in {u \in SeqsUpTo(S, n - 1) : Len(u) = n - 1},
                         x \in S}

Paths == [isstr : {TRUE}, abs : BOOLEAN, segs : SeqsUpTo(SegNames, MaxPathLen)]

\* A stream argument that is not a file name (None or an open file).
NotAName == [isstr |-> FALSE, abs |-> FALSE, segs |-> <<>>]

\* os.path.normpath on the segments: '..' drops the segment before it and is
\* itself dropped at the root.
RECURSIVE NormSegs(_, _)
NormSegs(segs, acc) ==
    IF segs = <<>> THEN acc
    ELSE IF Head(segs) = DotDot
    THEN NormSegs(Tail(segs),
                  IF acc = <<>> THEN acc ELSE SubSeq(acc, 1, Len(acc) - 1))
    ELSE NormSegs(Tail(segs), Append(acc, Head(segs)))

\* os.path.abspath(path), the working directory being cwd.
AbsPath(cwd, path) ==
    NormSegs(IF path.abs THEN path.segs ELSE cwd \o path.segs, <<>>)

\* The string of an absolute path: '/' before each segment ('/' for the root).
RECURSIVE JoinSegs(_)
JoinSegs(segs) ==
    IF segs = <<>> THEN <<>>
    ELSE <<"/">> \o Head(segs) \o JoinSegs(Tail(segs))

PathStr(segs) == IF segs = <<>> THEN <<"/">> ELSE JoinSegs(segs)

\* str.startswith
StartsWith(str, prefix) ==
    /\ Len(prefix) <= Len(str)
    /\ SubSeq(str, 1, Len(prefix)) = prefix

\* candidate is root or a descendant of root, by path segments.
Within(root, segs) == StartsWith(segs, root)

\* ObjServer._check_path: TRUE when no RuntimeError is raised.
CheckPath(root, path) ==
    StartsWith(PathStr(AbsPath(root, path)), PathStr(root))

\* --------------------------------------------------- ObjServer: operations

SNoCall ==
    [op |-> "none", caller |-> NoCreds, path |-> NotAName,
     streams |-> <<NotAName, NotAName, NotAName>>, res |-> "ok",
     accepted |-> {}, checked |-> 0, touched |-> {}, spawned |-> FALSE,
     tlo0 |-> 0, hooked |-> FALSE]

\* The ObjServer side as constructed and never called.
ServerIdle ==
    /\ root_dir = <<<<"b">>>>
    /\ allow_shell = FALSE
    /\ tlo = 0
    /\ predel = {}
    /\ nload = 0
    /\ slast = SNoCall

\* if not self._allow_shell: raise RuntimeError('shell access is not allowed')
ShellDenied_NoGate(allow) == FALSE
ShellDenied(allow) == ~allow

\* chmod, open, remove, stat, pack_zipfile, unpack_zipfile: the path check,
\* then the underlying operation, whose failure (oserr) is re-raised.
FileOp(call, root, path, oserr) ==
    IF ~CheckPath(root, path)
    THEN [call EXCEPT !.res = "RuntimeError_path", !.checked = 1]
    ELSE [call EXCEPT !.res = IF oserr THEN "OSError" ELSE "ok",
                      !.checked = 1, !.accepted = {path},
                      !.touched = {AbsPath(root, path)}]

\* The for loop of execute_command over (stdin, stdout, stderr) from
\* position i: the names checked so far, and whether every check passed.
RECURSIVE CheckStreams(_, _, _, _)
CheckStreams(root, streams, i, acc) ==
    IF i > Len(streams) THEN acc
    ELSE IF ~streams[i].isstr THEN CheckStreams(root, streams, i + 1, acc)
    ELSE IF ~CheckPath(root, streams[i])
    THEN [acc EXCEPT !.ok = FALSE, !.checked = acc.checked + 1]
    ELSE CheckStreams(root, streams, i + 1,
                      [acc EXCEPT !.checked = acc.checked + 1,
                                  !.accepted = acc.accepted \cup {streams[i]}])

\* ObjServer.execute_command(command, stdin, stdout, stderr, ...); spawnfail:
\* ShellProc(...) raises.
ExecuteOp(call, allow, root, streams, spawnfail) ==
    IF ShellDenied(allow)
    THEN [call EXCEPT !.res = "RuntimeError_shell"]
    ELSE LET c == CheckStreams(root, streams, 1,
                               [ok |-> TRUE, checked |-> 0, accepted |-> {}])
             seen == [call EXCEPT !.checked = c.checked,
                                  !.accepted = c.accepted]
         IN  IF ~c.ok THEN [seen EXCEPT !.res = "RuntimeError_path"]
             ELSE IF spawnfail THEN [seen EXCEPT !.res = "Exception"]
             ELSE [seen EXCEPT
                     !.res = "ok", !.spawned = TRUE,
                     !.touched = {AbsPath(root, q) : q \in c.accepted}]

\* The ObjServer state load_model works on.
SrvState(call) == [tlo |-> tlo, predel |-> predel, nload |-> nload,
                   call |-> call]

\* ObjServer.load_model(egg_filename); loadfail: load_from_eggfile raises.
LoadModelOp(st, allow, root, path, loadfail) ==
    IF ShellDenied(allow)
    THEN [st EXCEPT !.call.res = "RuntimeError_shell"]
    ELSE IF ~CheckPath(root, path)
    THEN [st EXCEPT !.call.res = "RuntimeError_path", !.call.checked = 1]
    ELSE LET hooked == st.tlo /= 0
             torn == [st EXCEPT
                        !.predel = IF hooked THEN st.predel \cup {st.tlo}
                                   ELSE st.predel,
                        !.call.hooked = hooked, !.call.checked = 1,
                        !.call.accepted = {path},
                        !.call.touched = {AbsPath(root, path)}]
         IN  IF loadfail THEN [torn EXCEPT !.call.res = "Exception"]
             ELSE [torn EXCEPT !.tlo = st.nload + 1, !.nload = st.nload + 1,
                               !.call.res = "ok"]

\* ------------------------------------------------------ ObjServer: actions

\* The factory side as constructed and never called.
FactoryIdle ==
    /\ managers = EmptyReg
    /\ alive = {}
    /\ closers = {}
    /\ dirs = {}
    /\ keep_dirs = FALSE
    /\ creds = NoCreds
    /\ nspawn = 0
    /\ released = {}
    /\ last = NoCall

\* start_server not called: no key, configuration or output file, and no
\* subprocess.
StartIdle ==
    /\ port_ge0 = FALSE
    /\ users_given = FALSE
    /\ timeout = 0
    /\ spc = "idle"
    /\ retry = 0
    /\ key_file = FALSE
    /\ cfg_file = "absent"
    /\ out_file = FALSE
    /\ sub = "none"
    /\ exit_code = 0
    /\ early_exit = FALSE
    /\ sres = "none"
    /\ sexit = "none"

\* The client threads of a factory.
Threads == {1, 2}

\* A thread that is in no factory call.
IdleThread ==
    [pc |-> "idle", op |-> "none", root |-> [base |-> 0, n |-> 1], pid |-> 0,
     srv |-> 0, order |-> <<>>, idx |-> 0, inclean |-> FALSE, res |-> "none"]

\* No client thread has called the factory.
ThreadsIdle ==
    /\ threads = [t \in Threads |-> IdleThread]
    /\ ncalls = 0

\* The record of a connect() call, before any call was made.
CNoCall ==
    [op |-> "none", address |-> "a1", port |-> 0, alive |-> FALSE,
     res |-> "ok", ret |-> 0, made |-> FALSE,
     key |-> [authkey |-> "PublicKey", pubkey |-> "none"]]

\* connect() not called: _PROXIES = {}.
ConnectIdle ==
    /\ proxies = [l \in {} |-> 0]
    /\ nconn = 0
    /\ handed = {}
    /\ cncalls = 0
    /\ clast = CNoCall

\* The other parts of the module as loaded and never called.
\* A server thread that is in no load_model call.
IdleLoader == [pc |-> "idle", new |-> 0, res |-> "none"]

\* No server thread has called load_model.
LoadIdle ==
    /\ lthreads = [t \in Threads |-> IdleLoader]
    /\ hooks = [o \in {} |-> 0]
    /\ replaced = {}
    /\ lcalls = 0

\* No execute_command has been called.
ExecIdle ==
    /\ epc = "idle"
    /\ etimeout = 0
    /\ edelay = 1
    /\ waited = 0
    /\ child = "none"
    /\ eres = "none"
    /\ ecalls = 0

\* No call has arrived from the network.
RNoCall ==
    [op |-> "none", cls |-> "ObjServer", method |-> "echo", role |-> "owner",
     res |-> "none"]

RbacIdle ==
    /\ rlast = RNoCall
    /\ rcalls = 0

\* main() is not running.
MainIdle ==
    /\ mpc = "done"
    /\ allow_public = FALSE
    /\ mport_ge0 = FALSE
    /\ users_file = "missing"
    /\ hosts_file = "missing"
    /\ mkeep = FALSE
    /\ mretries = 0
    /\ nfail = 0
    /\ manager_made = FALSE
    /\ bound = FALSE
    /\ handler = FALSE
    /\ mcfg = FALSE
    /\ mexit = "none"
    /\ mwhy = "none"

\* Modules whose source files the tree analyser may be given.
Mods == {"a", "m", "n"}

\* The record of a call on the tree analyser, before any call was made.
DNoCall ==
    [op |-> "none", mod |-> "a", form |-> "abs", res |-> "ok", ret |-> 0,
     count0 |-> 0, fresh |-> FALSE, cached |-> 0]

\* No PythonSourceTreeAnalyser has been constructed and no source file is
\* looked at.
DepIdle ==
    /\ src = [x \in {} |-> 0]
    /\ fmtime = [x \in {} |-> 0]
    /\ class_map = [c \in {} |-> 0]
    /\ fileinfo = [p \in {} |-> 0]
    /\ files_count = 0
    /\ analysed = [x \in {} |-> 0]
    /\ dcalls = 0
    /\ dlast = DNoCall

\* start_server has not been entered.
EntryIdle == stale_cfg = FALSE

ExtIdle ==
    /\ ConnectIdle
    /\ LoadIdle
    /\ ExecIdle
    /\ RbacIdle
    /\ MainIdle
    /\ DepIdle
    /\ EntryIdle

\* Working directories a server subprocess may be started in.
Roots == {<<<<"b">>>>, <<<<"b">>, <<"b">>>>}

\* ObjServer.__init__(name, allow_shell) in the working directory root_dir.
SInit ==
    /\ FactoryIdle
    /\ root_dir \in Roots
    /\ allow_shell \in BOOLEAN
    /\ tlo = 0
    /\ predel = {}
    /\ nload = 0
    /\ slast = SNoCall
    /\ StartIdle
    /\ ThreadsIdle
    /\ ExtIdle

\* Names the model passes as stdin, stdout or stderr.
StreamArgs ==
    {NotAName,
     [isstr |-> TRUE, abs |-> FALSE, segs |-> <<<<"b">>>>],
     [isstr |-> TRUE, abs |-> TRUE, segs |-> <<<<"b", "c">>>>],
     [isstr |-> TRUE, abs |-> TRUE, segs |-> <<>>]}

\* Callers of the gated operations: one of each user.
ServerCallers == {c \in Credentials : c.key = "k1"}

Call(op) == [SNoCall EXCEPT !.op = op, !.tlo0 = tlo]

\* One of the operations that check a path and then act on it.
SFileCall(op) ==
    \E path \in Paths, oserr \in BOOLEAN :
        /\ oserr => CheckPath(root_dir, path)
        /\ slast' = FileOp([Call(op) EXCEPT !.path = path], root_dir, path,
                           oserr)
        /\ UNCHANGED <<root_dir, allow_shell, tlo, predel, nload>>
        /\ UNCHANGED <<facvars, startvars, thrvars, extvars>>

SOpen == SFileCall("open")

SRemove == SFileCall("remove")

SStat == SFileCall("stat")

SChmod == SFileCall("chmod")

SPackZipfile == SFileCall("pack_zipfile")

SUnpackZipfile == SFileCall("unpack_zipfile")

SEcho_GrantsShell ==
    /\ slast' = Call("echo")
    /\ allow_shell' = TRUE
    /\ UNCHANGED <<root_dir, tlo, predel, nload>>
    /\ UNCHANGED <<facvars, startvars, thrvars, extvars>>

\* ObjServer.echo(*args): returns its arguments.
SEcho ==
    /\ slast' = Call("echo")
    /\ UNCHANGED <<root_dir, allow_shell, tlo, predel, nload>>
    /\ UNCHANGED <<facvars, startvars, thrvars, extvars>>

\* ObjServer.create: whatever factorymanager.create returns or raises.
SCreate ==
    \E res \in {"ok", "Exception"} :
        /\ slast' = [Call("create") EXCEPT !.res = res]
        /\ UNCHANGED <<root_dir, allow_shell, tlo, predel, nload>>
        /\ UNCHANGED <<facvars, startvars, thrvars, extvars>>

SExecuteCommand ==
    \E caller \in ServerCallers, i \in StreamArgs, o \in StreamArgs,
       e \in StreamArgs, spawnfail \in BOOLEAN :
        /\ spawnfail =>
               /\ ~ShellDenied(allow_shell)
               /\ \A q \in {i, o, e} : q.isstr => CheckPath(root_dir, q)
        /\ slast' = ExecuteOp([Call("execute_command") EXCEPT
                                 !.caller = caller, !.streams = <<i, o, e>>],
                              allow_shell, root_dir, <<i, o, e>>, spawnfail)
        /\ UNCHANGED <<root_dir, allow_shell, tlo, predel, nload>>
        /\ UNCHANGED <<facvars, startvars, thrvars, extvars>>

SLoadModel ==
    \E caller \in ServerCallers, path \in Paths, loadfail \in BOOLEAN :
        LET r == LoadModelOp(SrvState([Call("load_model") EXCEPT
                                         !.caller = caller, !.path = path]),
                             allow_shell, root_dir, path, loadfail)
        IN  /\ r.nload <= MaxModels
            /\ loadfail => ~ShellDenied(allow_shell) /\ CheckPath(root_dir, path)
            /\ slast' = r.call
            /\ tlo' = r.tlo
            /\ predel' = r.predel
            /\ nload' = r.nload
            /\ UNCHANGED <<root_dir, allow_shell>>
            /\ UNCHANGED <<facvars, startvars, thrvars, extvars>>

SNext ==
    \/ SOpen
    \/ SRemove
    \/ SStat
    \/ SChmod
    \/ SPackZipfile
    \/ SUnpackZipfile
    \/ SEcho
    \/ SCreate
    \/ SExecuteCommand
    \/ SLoadModel

SpecServer == SInit /\ [][SNext]_vars

\* ------------------------------------------------------ factory: actions

\* Names a caller may pass as ctor_args['name'] (-1: none given).
CustomNames == {-1, 1}

\* ObjServerFactory.__init__.
Init ==
    /\ managers = EmptyReg
    /\ alive = {}
    /\ closers = {}
    /\ dirs = {}
    /\ keep_dirs \in BOOLEAN
    /\ creds = NoCreds
    /\ nspawn = 0
    /\ released = {}
    /\ last = NoCall
    /\ ServerIdle
    /\ StartIdle
    /\ ThreadsIdle
    /\ ExtIdle

\* The factory variables after a call that left the state r.
Commit(r) ==
    /\ managers' = r.managers
    /\ alive' = r.alive
    /\ closers' = r.closers
    /\ dirs' = r.dirs
    /\ creds' = r.creds
    /\ nspawn' = r.nspawn
    /\ UNCHANGED keep_dirs

\* A remote call of create(), dispatched with the caller's credentials. With
\* a server given, create() reads neither the credentials nor the identity of
\* the proxy: such calls are drawn with one key per user and the registered
\* proxies (of live, released and never started servers).
FCreate ==
    \E caller \in Credentials, typname \in BOOLEAN, hasserver \in BOOLEAN,
       server \in Refs, custom \in CustomNames, fault \in CreateFaults :
        /\ hasserver => (custom = -1 /\ fault \in {"none", "create"}
                         /\ server.host = Local /\ ~server.alias
                         /\ caller.key = "k1")
        /\ ~hasserver => (server = NoRef /\ nspawn < MaxSpawn)
        /\ fault = "create" => typname
        /\ \E r \in {CreateOp([FacState EXCEPT !.creds = caller], typname,
                             hasserver, server, custom, fault)} :
               /\ Commit(r)
               /\ UNCHANGED released
               /\ last' = [NoCall EXCEPT
                             !.op = "create", !.caller = caller,
                             !.server = server, !.hasserver = hasserver,
                             !.typname = typname,
                             !.res = r.res, !.retkind = r.retkind,
                             !.retpid = r.retpid, !.fwd = r.fwd]
        /\ UNCHANGED <<srvvars, startvars, thrvars, extvars>>

\* release(server) under credentials cur gets as far as manager.shutdown(),
\* so that a failure of shutdown() or rmtree() can be met.
ReachesShutdown(m, cur, server) ==
    /\ Resolve(m, server) /= 0
    /\ ~NotOwner(cur, m[Resolve(m, server)].owner)

\* A remote call of release(server), dispatched with the caller's credentials.
\* A proxy without host or pid (fault "attr") is drawn where the search by
\* host and pid would have found an entry: elsewhere both ways end in the
\* same ValueError.
FRelease ==
    \E caller \in Credentials, server \in Refs, fault \in ReleaseFaults :
        /\ fault = "attr" =>
               (~IsKey(managers, server) /\ Resolve(managers, server) /= 0)
        /\ fault \in {"shutdown", "rmtree"} =>
               ReachesShutdown(managers, caller, server)
        /\ \E r \in {ReleaseOp([FacState EXCEPT !.creds = caller], server,
                              fault)},
              t \in {IF fault = "attr" THEN 0 ELSE Resolve(managers, server)} :
               /\ Commit(r)
               /\ released' = IF r.res = "ok" THEN released \cup {t}
                               ELSE released
               /\ last' = [NoCall EXCEPT
                             !.op = "release", !.caller = caller,
                             !.server = server, !.hasserver = TRUE,
                             !.res = r.res, !.target = t,
                             !.owner = IF t = 0 THEN NoCreds
                                       ELSE managers[t].owner,
                             !.stale = (server.host = Local
                                        /\ server.pid \in released)]
        /\ UNCHANGED <<srvvars, startvars, thrvars, extvars>>

\* A remote call of cleanup(), dispatched with the caller's credentials.
FCleanup ==
    \E caller \in Credentials, order \in Perms(DOMAIN managers),
       failAt \in {0} \cup DOMAIN managers, kind \in {"shutdown", "rmtree"} :
        /\ failAt = 0 => kind = "shutdown"
        /\ kind = "rmtree" => ~keep_dirs
        /\ \E r \in {CleanupOp([FacState EXCEPT !.creds = caller], order,
                              failAt, kind)} :
               /\ Commit(r)
               /\ released' = released \cup
                                  {x.pid : x \in {y \in r.ran : y.res = "ok"}}
               /\ last' = [NoCall EXCEPT
                             !.op = "cleanup", !.caller = caller,
                             !.res = r.res, !.order = order, !.ran = r.ran]
        /\ UNCHANGED <<srvvars, startvars, thrvars, extvars>>

Next == FCreate \/ FRelease \/ FCleanup

Spec == Init /\ [][Next]_vars

\* ------------------------------------------------------ start_server, main

\* retry < 10*timeout: the polls of prefix.cfg made per second of timeout.
RetryFactor == 10

\* Exit statuses of a subprocess that ends by itself before it has written
\* prefix.cfg: sys.exit(1) and uncaught exceptions of main(), and an
\* interpreter that ends with status 0.
ExitCodes == {0, 1}

\* The subprocess has been spawned and has neither exited nor been killed.
SubAlive == sub \in {"started", "keyread", "cfgopen", "serving"}

\* The negation of the polling loop's condition
\* (not os.path.exists(server_cfg)) or (os.path.getsize(server_cfg) == 0).
CfgReady == cfg_file = "full"

\* return_code = proc.poll(); if return_code: poll() is None while the
\* subprocess runs and its exit status afterwards; None and 0 are false.
ReturnCodeTrue == sub = "exited" /\ exit_code /= 0

\* proc.terminate(timeout): a subprocess still running is killed.
Terminate(stage) ==
    IF stage \in {"started", "keyread", "cfgopen", "serving"} THEN "killed"
    ELSE stage

\* start_server(authkey, port, prefix, allowed_hosts, allowed_users,
\* allow_shell, timeout) is entered; prefix.cfg and prefix.out may be left
\* from an earlier server.
StartInit ==
    /\ FactoryIdle
    /\ ServerIdle
    /\ ThreadsIdle
    /\ ConnectIdle
    /\ LoadIdle
    /\ ExecIdle
    /\ RbacIdle
    /\ MainIdle
    /\ DepIdle
    /\ port_ge0 \in BOOLEAN
    /\ users_given \in BOOLEAN
    /\ timeout \in 0 .. MaxTimeout
    /\ spc = "remove_old"
    /\ retry = 0
    /\ key_file = FALSE
    /\ cfg_file \in {"absent", "full"}
    /\ stale_cfg = (cfg_file /= "absent")
    /\ out_file \in BOOLEAN
    /\ sub = "none"
    /\ exit_code = 0
    /\ early_exit = FALSE
    /\ sres = "none"
    /\ sexit = "none"

\* A statement before the try block raises: the exception leaves
\* start_server at once.
StartRaise(step) ==
    /\ spc' = "done"
    /\ sres' = "Exception"
    /\ sexit' = step

StartRemoveOld_KeepsCfg ==
    /\ spc = "remove_old"
    /\ \E fail \in BOOLEAN :
           /\ fail => (cfg_file /= "absent" \/ out_file)
           /\ IF fail
              THEN StartRaise("remove_old") /\ UNCHANGED <<cfg_file, out_file>>
              ELSE /\ out_file' = FALSE
                   /\ spc' = "write_key"
                   /\ UNCHANGED <<cfg_file, sres, sexit>>
    /\ UNCHANGED <<port_ge0, users_given, timeout, retry, key_file, sub,
                   exit_code, early_exit>>
    /\ UNCHANGED <<facvars, srvvars, thrvars, extvars>>

\* for path in (server_cfg, server_out): if os.path.exists(path):
\* os.remove(path).
StartRemoveOld ==
    /\ spc = "remove_old"
    /\ \E fail \in BOOLEAN :
           /\ fail => (cfg_file /= "absent" \/ out_file)
           /\ IF fail
              THEN StartRaise("remove_old") /\ UNCHANGED <<cfg_file, out_file>>
              ELSE /\ cfg_file' = "absent"
                   /\ out_file' = FALSE
                   /\ spc' = "write_key"
                   /\ UNCHANGED <<sres, sexit>>
    /\ UNCHANGED <<port_ge0, users_given, timeout, retry, key_file, sub,
                   exit_code, early_exit>>
    /\ UNCHANGED <<facvars, srvvars, thrvars, extvars>>

\* with open(server_key, 'w') as out: out.write(authkey).
StartWriteKey ==
    /\ spc = "write_key"
    /\ \E fail \in BOOLEAN :
           IF fail
           THEN StartRaise("write_key") /\ UNCHANGED key_file
           ELSE /\ key_file' = TRUE
                /\ spc' = "write_hosts"
                /\ UNCHANGED <<sres, sexit>>
    /\ UNCHANGED <<port_ge0, users_given, timeout, retry, cfg_file, out_file,
                   sub, exit_code, early_exit>>
    /\ UNCHANGED <<facvars, srvvars, thrvars, extvars>>

\* if port >= 0: with open('hosts.allow', 'w') as out: ...
StartWriteHosts ==
    /\ spc = "write_hosts"
    /\ \E fail \in BOOLEAN :
           /\ fail => port_ge0
           /\ IF fail
              THEN StartRaise("write_hosts")
              ELSE spc' = "write_users" /\ UNCHANGED <<sres, sexit>>
    /\ UNCHANGED <<port_ge0, users_given, timeout, retry, key_file, cfg_file,
                   out_file, sub, exit_code, early_exit>>
    /\ UNCHANGED <<facvars, srvvars, thrvars, extvars>>

\* if allowed_users is not None: write_authorized_keys(allowed_users,
\* 'users.allow', ...).
StartWriteUsers ==
    /\ spc = "write_users"
    /\ \E fail \in BOOLEAN :
           /\ fail => users_given
           /\ IF fail
              THEN StartRaise("write_users")
              ELSE spc' = "spawn" /\ UNCHANGED <<sres, sexit>>
    /\ UNCHANGED <<port_ge0, users_given, timeout, retry, key_file, cfg_file,
                   out_file, sub, exit_code, early_exit>>
    /\ UNCHANGED <<facvars, srvvars, thrvars, extvars>>

\* proc = ShellProc(args, stdout=server_out, stderr=STDOUT); retry = 0.
StartSpawn ==
    /\ spc = "spawn"
    /\ \E fail \in BOOLEAN :
           IF fail
           THEN StartRaise("spawn") /\ UNCHANGED <<sub, out_file, retry>>
           ELSE /\ sub' = "started"
                /\ out_file' = TRUE
                /\ retry' = 0
                /\ spc' = "poll"
                /\ UNCHANGED <<sres, sexit>>
    /\ UNCHANGED <<port_ge0, users_given, timeout, key_file, cfg_file,
                   exit_code, early_exit>>
    /\ UNCHANGED <<facvars, srvvars, thrvars, extvars>>

\* The while condition is false: return proc (through the finally clause).
StartReturn ==
    /\ spc = "poll"
    /\ CfgReady
    /\ sres' = "proc"
    /\ spc' = "finally"
    /\ UNCHANGED <<port_ge0, users_given, timeout, retry, key_file, cfg_file,
                   out_file, sub, exit_code, early_exit, sexit>>
    /\ UNCHANGED <<facvars, srvvars, thrvars, extvars>>

\* if return_code: raise RuntimeError('Server startup failed %s' % error_msg).
StartPollFailed ==
    /\ spc = "poll"
    /\ ~CfgReady
    /\ ReturnCodeTrue
    /\ sres' = "failed"
    /\ spc' = "finally"
    /\ UNCHANGED <<port_ge0, users_given, timeout, retry, key_file, cfg_file,
                   out_file, sub, exit_code, early_exit, sexit>>
    /\ UNCHANGED <<facvars, srvvars, thrvars, extvars>>

StartPollSleep_NoCount ==
    /\ spc = "poll"
    /\ ~CfgReady
    /\ ~ReturnCodeTrue
    /\ retry + 1 < RetryFactor * timeout
    /\ UNCHANGED <<port_ge0, users_given, timeout, spc, key_file, cfg_file,
                   out_file, sub, exit_code, early_exit, sres, sexit, retry>>
    /\ UNCHANGED <<facvars, srvvars, thrvars, extvars>>

\* retry += 1; if retry < 10*timeout: time.sleep(.1).
StartPollSleep ==
    /\ spc = "poll"
    /\ ~CfgReady
    /\ ~ReturnCodeTrue
    /\ retry + 1 < RetryFactor * timeout
    /\ retry' = retry + 1
    /\ UNCHANGED <<port_ge0, users_given, timeout, spc, key_file, cfg_file,
                   out_file, sub, exit_code, early_exit, sres, sexit>>
    /\ UNCHANGED <<facvars, srvvars, thrvars, extvars>>

\* retry += 1; else: proc.terminate(timeout);
\* raise RuntimeError('Server startup timeout').
StartPollTimeout_NoTerminate ==
    /\ spc = "poll"
    /\ ~CfgReady
    /\ ~ReturnCodeTrue
    /\ ~(retry + 1 < RetryFactor * timeout)
    /\ retry' = retry + 1
    /\ sres' = "timeout"
    /\ spc' = "finally"
    /\ UNCHANGED <<port_ge0, users_given, timeout, key_file, cfg_file,
                   out_file, sub, exit_code, early_exit, sexit>>
    /\ UNCHANGED <<facvars, srvvars, thrvars, extvars>>
StartPollTimeout ==
    /\ spc = "poll"
    /\ ~CfgReady
    /\ ~ReturnCodeTrue
    /\ ~(retry + 1 < RetryFactor * timeout)
    /\ retry' = retry + 1
    /\ sub' = Terminate(sub)
    /\ sres' = "timeout"
    /\ spc' = "finally"
    /\ UNCHANGED <<port_ge0, users_given, timeout, key_file, cfg_file,
                   out_file, exit_code, early_exit, sexit>>
    /\ UNCHANGED <<facvars, srvvars, thrvars, extvars>>

\* finally: if os.path.exists(server_key): os.remove(server_key).
StartFinally ==
    /\ spc = "finally"
    /\ key_file' = FALSE
    /\ spc' = "done"
    /\ UNCHANGED <<port_ge0, users_given, timeout, retry, cfg_file, out_file,
                   sub, exit_code, early_exit, sres, sexit>>
    /\ UNCHANGED <<facvars, srvvars, thrvars, extvars>>

\* main(): with open(server_key, 'r') as inp: authkey = ...;
\* os.remove(server_key); a missing key file is passed over.
MainReadKey ==
    /\ sub = "started"
    /\ sub' = "keyread"
    /\ key_file' = FALSE
    /\ UNCHANGED <<port_ge0, users_given, timeout, spc, retry, cfg_file,
                   out_file, exit_code, early_exit, sres, sexit>>
    /\ UNCHANGED <<facvars, srvvars, thrvars, extvars>>

\* main() ends before write_server_config: an option, users file, hosts file
\* or address error, or an exception.
MainExit ==
    /\ sub \in {"started", "keyread"}
    /\ \E code \in ExitCodes :
           /\ sub' = "exited"
           /\ exit_code' = code
           /\ early_exit' = TRUE
    /\ UNCHANGED <<port_ge0, users_given, timeout, spc, retry, key_file,
                   cfg_file, out_file, sres, sexit>>
    /\ UNCHANGED <<facvars, srvvars, thrvars, extvars>>

\* write_server_config(server, _SERVER_CFG) opens prefix.cfg for writing.
MainOpenCfg ==
    /\ sub = "keyread"
    /\ sub' = "cfgopen"
    /\ cfg_file' = "empty"
    /\ UNCHANGED <<port_ge0, users_given, timeout, spc, retry, key_file,
                   out_file, exit_code, early_exit, sres, sexit>>
    /\ UNCHANGED <<facvars, srvvars, thrvars, extvars>>

\* write_server_config has written prefix.cfg; main() goes on to
\* server.serve_forever().
MainWriteCfg ==
    /\ sub = "cfgopen"
    /\ sub' = "serving"
    /\ cfg_file' = "full"
    /\ UNCHANGED <<port_ge0, users_given, timeout, spc, retry, key_file,
                   out_file, exit_code, early_exit, sres, sexit>>
    /\ UNCHANGED <<facvars, srvvars, thrvars, extvars>>

\* serve_forever() returns: finally: _cleanup() removes prefix.cfg unless
\* OPENMDAO_KEEPDIRS is non-zero; sys.exit(0).
MainServeEnd ==
    /\ sub = "serving"
    /\ sub' = "exited"
    /\ exit_code' = 0
    /\ cfg_file' = IF keep_dirs THEN cfg_file ELSE "absent"
    /\ UNCHANGED <<port_ge0, users_given, timeout, spc, retry, key_file,
                   out_file, early_exit, sres, sexit>>
    /\ UNCHANGED <<facvars, srvvars, thrvars, extvars>>

StartNext ==
    \/ StartRemoveOld
    \/ StartWriteKey
    \/ StartWriteHosts
    \/ StartWriteUsers
    \/ StartSpawn
    \/ StartReturn
    \/ StartPollFailed
    \/ StartPollSleep
    \/ StartPollTimeout
    \/ StartFinally
    \/ MainReadKey
    \/ MainExit
    \/ MainOpenCfg
    \/ MainWriteCfg
    \/ MainServeEnd

SpecStart == StartInit /\ [][StartNext]_vars

\* The statements of start_server itself, which runs on without being held
\* up: every sleep of the polling loop ends.
StartStep ==
    \/ StartRemoveOld
    \/ StartWriteKey
    \/ StartWriteHosts
    \/ StartWriteUsers
    \/ StartSpawn
    \/ StartReturn
    \/ StartPollFailed
    \/ StartPollSleep
    \/ StartPollTimeout
    \/ StartFinally

\* start_server and the subprocess, start_server taking its next statement
\* whenever it has one.
SpecStartLive == StartInit /\ [][StartNext]_vars /\ WF_vars(StartStep)

\* ---------------------------------------------- factory: concurrent calls

\* Client threads call create(), release() and cleanup() of one factory;
\* each step below is one access of the registry, the directories or a
\* server subprocess, and steps of different threads interleave. Every call
\* is made under the credentials NoCreds.

\* The threads between their call of create() and manager.start().
Spawning ==
    {t \in Threads :
        threads[t].pc \in {"c_name", "c_probe", "c_mkdir", "c_start"}}

\* Thread t enters the method op at the statement pc.
ThreadCall(t, op, pc) ==
    /\ threads[t].pc \in {"idle", "done"}
    /\ ncalls < MaxCalls
    /\ ncalls' = ncalls + 1
    /\ threads' = [threads EXCEPT ![t] = [IdleThread EXCEPT !.pc = pc,
                                                            !.op = op]]

\* The call of the thread raises err.
ThreadRaise(th, err) == [th EXCEPT !.pc = "done", !.res = err]

\* create(typname='', server=None, ...) is called.
ConcCallCreate ==
    \E t \in Threads :
        /\ nspawn + Cardinality(Spawning) < MaxSpawn
        /\ ThreadCall(t, "create", "c_name")
        /\ UNCHANGED <<managers, alive, closers, dirs, nspawn>>
        /\ UNCHANGED <<keep_dirs, creds, released, last, srvvars, startvars,
                       extvars>>

\* name = ctor_args.get('name', '') or 'Server_%d' % (len(self._managers)+1);
\* root_dir = name; count = 1.
ConcName ==
    \E t \in Threads, custom \in CustomNames :
        /\ threads[t].pc = "c_name"
        /\ threads' = [threads EXCEPT
                         ![t].root = [base |-> ServerName(managers, custom),
                                      n |-> 1],
                         ![t].pc = "c_probe"]
        /\ UNCHANGED <<managers, alive, closers, dirs, nspawn, ncalls>>
        /\ UNCHANGED <<keep_dirs, creds, released, last, srvvars, startvars,
                       extvars>>

\* while os.path.exists(root_dir): count += 1; root_dir = '%s_%d' % ...
ConcProbe ==
    \E t \in Threads :
        /\ threads[t].pc = "c_probe"
        /\ threads' = IF threads[t].root \in dirs
                      THEN [threads EXCEPT ![t].root.n = @ + 1]
                      ELSE [threads EXCEPT ![t].pc = "c_mkdir"]
        /\ UNCHANGED <<managers, alive, closers, dirs, nspawn, ncalls>>
        /\ UNCHANGED <<keep_dirs, creds, released, last, srvvars, startvars,
                       extvars>>

\* os.mkdir(root_dir): OSError when the directory exists.
ConcMkdir ==
    \E t \in Threads :
        /\ threads[t].pc = "c_mkdir"
        /\ IF threads[t].root \in dirs
           THEN /\ threads' = [threads EXCEPT
                                 ![t] = ThreadRaise(@, "OSError")]
                /\ UNCHANGED dirs
           ELSE /\ dirs' = dirs \cup {threads[t].root}
                /\ threads' = [threads EXCEPT ![t].pc = "c_start"]
        /\ UNCHANGED <<managers, alive, closers, nspawn, ncalls>>
        /\ UNCHANGED <<keep_dirs, creds, released, last, srvvars, startvars,
                       extvars>>

\* owner = get_credentials(); manager.start(cwd=root_dir).
ConcStart ==
    \E t \in Threads :
        /\ threads[t].pc = "c_start"
        /\ nspawn' = nspawn + 1
        /\ alive' = alive \cup {nspawn + 1}
        /\ threads' = [threads EXCEPT ![t].pid = nspawn + 1,
                                      ![t].pc = "c_register"]
        /\ UNCHANGED <<managers, closers, dirs, ncalls>>
        /\ UNCHANGED <<keep_dirs, creds, released, last, srvvars, startvars,
                       extvars>>

\* server = manager...ObjServer(...); self._managers[server] = (manager,
\* root_dir, owner); typname is empty: return server.
ConcRegister ==
    \E t \in Threads :
        /\ threads[t].pc = "c_register"
        /\ managers' = RegAdd(managers, threads[t].pid,
                              [root_dir |-> threads[t].root,
                               owner |-> NoCreds])
        /\ closers' = closers \cup {threads[t].pid}
        /\ threads' = [threads EXCEPT ![t].pc = "done", ![t].res = "ok"]
        /\ UNCHANGED <<alive, dirs, nspawn, ncalls>>
        /\ UNCHANGED <<keep_dirs, creds, released, last, srvvars, startvars,
                       extvars>>

\* release(server) is called with the proxy of a server the factory started.
ConcCallRelease ==
    \E t \in Threads, pid \in 1 .. nspawn :
        /\ threads[t].pc \in {"idle", "done"}
        /\ ncalls < MaxCalls
        /\ ncalls' = ncalls + 1
        /\ threads' = [threads EXCEPT
                         ![t] = [IdleThread EXCEPT !.pc = "r_lookup",
                                                   !.op = "release",
                                                   !.srv = pid]]
        /\ UNCHANGED <<managers, alive, closers, dirs, nspawn>>
        /\ UNCHANGED <<keep_dirs, creds, released, last, srvvars, startvars,
                       extvars>>

\* manager, root_dir, owner = self._managers[server] (or the search by host
\* and pid), then the ownership check.
ConcLookup ==
    \E t \in Threads :
        /\ threads[t].pc = "r_lookup"
        /\ LET target == Resolve(managers, KeyRef(threads[t].srv))
           IN  threads' =
                   IF target = 0
                   THEN [threads EXCEPT ![t] = ThreadRaise(@, "ValueError")]
                   ELSE IF NotOwner(NoCreds, managers[target].owner)
                   THEN [threads EXCEPT ![t] = ThreadRaise(@, "RoleError")]
                   ELSE [threads EXCEPT
                           ![t].srv = target,
                           ![t].root = managers[target].root_dir,
                           ![t].pc = "r_shutdown"]
        /\ UNCHANGED <<managers, alive, closers, dirs, nspawn, ncalls>>
        /\ UNCHANGED <<keep_dirs, creds, released, last, srvvars, startvars,
                       extvars>>

\* manager.shutdown(); server._close.cancel().
ConcShutdown ==
    \E t \in Threads :
        /\ threads[t].pc = "r_shutdown"
        /\ alive' = alive \ {threads[t].srv}
        /\ closers' = closers \ {threads[t].srv}
        /\ threads' = [threads EXCEPT ![t].pc = "r_del"]
        /\ UNCHANGED <<managers, dirs, nspawn, ncalls>>
        /\ UNCHANGED <<keep_dirs, creds, released, last, srvvars, startvars,
                       extvars>>

\* del self._managers[server]: KeyError when the entry is gone.
ConcDel ==
    \E t \in Threads :
        /\ threads[t].pc = "r_del"
        /\ IF threads[t].srv \in DOMAIN managers
           THEN /\ managers' = DelManager(managers, threads[t].srv)
                /\ threads' = [threads EXCEPT ![t].pc = "r_rmtree"]
           ELSE /\ threads' = [threads EXCEPT
                                 ![t] = ThreadRaise(@, "KeyError")]
                /\ UNCHANGED managers
        /\ UNCHANGED <<alive, closers, dirs, nspawn, ncalls>>
        /\ UNCHANGED <<keep_dirs, creds, released, last, srvvars, startvars,
                       extvars>>

\* if not keep_dirs and os.path.exists(root_dir): shutil.rmtree(root_dir);
\* release() returns, to its caller or to the loop of cleanup().
ConcRmtree ==
    \E t \in Threads :
        /\ threads[t].pc = "r_rmtree"
        /\ dirs' = IF ~keep_dirs THEN dirs \ {threads[t].root} ELSE dirs
        /\ threads' = IF threads[t].inclean
                      THEN [threads EXCEPT ![t].pc = "k_next",
                                           ![t].idx = @ + 1]
                      ELSE [threads EXCEPT ![t].pc = "done", ![t].res = "ok"]
        /\ UNCHANGED <<managers, alive, closers, nspawn, ncalls>>
        /\ UNCHANGED <<keep_dirs, creds, released, last, srvvars, startvars,
                       extvars>>

\* cleanup() is called.
ConcCallCleanup ==
    \E t \in Threads :
        /\ ThreadCall(t, "cleanup", "k_keys")
        /\ UNCHANGED <<managers, alive, closers, dirs, nspawn>>
        /\ UNCHANGED <<keep_dirs, creds, released, last, srvvars, startvars,
                       extvars>>

\* cleanup_creds = get_credentials(); servers = self._managers.keys().
ConcKeys ==
    \E t \in Threads, order \in Perms(DOMAIN managers) :
        /\ threads[t].pc = "k_keys"
        /\ threads' = [threads EXCEPT ![t].order = order, ![t].idx = 1,
                                      ![t].pc = "k_next"]
        /\ UNCHANGED <<managers, alive, closers, dirs, nspawn, ncalls>>
        /\ UNCHANGED <<keep_dirs, creds, released, last, srvvars, startvars,
                       extvars>>

\* for server in servers: set_credentials(self._managers[server][2]);
\* self.release(server). KeyError when the entry is gone.
ConcNextServer ==
    \E t \in Threads :
        /\ threads[t].pc = "k_next"
        /\ threads[t].idx <= Len(threads[t].order)
        /\ LET server == threads[t].order[threads[t].idx]
           IN  threads' =
                   IF server \in DOMAIN managers
                   THEN [threads EXCEPT ![t].srv = server,
                                        ![t].inclean = TRUE,
                                        ![t].pc = "r_lookup"]
                   ELSE [threads EXCEPT ![t] = ThreadRaise(@, "KeyError")]
        /\ UNCHANGED <<managers, alive, closers, dirs, nspawn, ncalls>>
        /\ UNCHANGED <<keep_dirs, creds, released, last, srvvars, startvars,
                       extvars>>

\* After the loop: self._managers = {}.
ConcWipe ==
    \E t \in Threads :
        /\ threads[t].pc = "k_next"
        /\ threads[t].idx > Len(threads[t].order)
        /\ managers' = EmptyReg
        /\ threads' = [threads EXCEPT ![t].pc = "done", ![t].res = "ok"]
        /\ UNCHANGED <<alive, closers, dirs, nspawn, ncalls>>
        /\ UNCHANGED <<keep_dirs, creds, released, last, srvvars, startvars,
                       extvars>>

ConcNext ==
    \/ ConcCallCreate
    \/ ConcName
    \/ ConcProbe
    \/ ConcMkdir
    \/ ConcStart
    \/ ConcRegister
    \/ ConcCallRelease
    \/ ConcLookup
    \/ ConcShutdown
    \/ ConcDel
    \/ ConcRmtree
    \/ ConcCallCleanup
    \/ ConcKeys
    \/ ConcNextServer
    \/ ConcWipe

SpecConc == Init /\ [][ConcNext]_vars

\* ----------------------------------------------------------------- connect

\* Number of connect() calls in one behaviour.
MaxConnect == 3

Addresses == {"a1", "a2"}
\* Ports: negative for a pipe, whose filename is the address.
Ports == {-2, -1, 0, 1}

\* if port < 0: location = address, else: location = (address, port).
Location_KeepPort(address, port) ==
    [address |-> address, pipe |-> port < 0, port |-> port]
Location(address, port) ==
    IF port < 0 THEN [address |-> address, pipe |-> TRUE, port |-> 0]
    ELSE [address |-> address, pipe |-> FALSE, port |-> port]

\* if not OpenMDAO_Proxy.manager_is_alive(location): raise RuntimeError.
Unreachable_Unchecked(reachable) == FALSE
Unreachable(reachable) == ~reachable

ConnectFaults == {"none", "connect", "proxy"}

\* The authkey and pubkey arguments of connect(): authkey defaults to
\* 'PublicKey' and pubkey to None.
ConnectKeys ==
    {[authkey |-> "PublicKey", pubkey |-> "none"],
     [authkey |-> "PublicKey", pubkey |-> "p1"],
     [authkey |-> "k1", pubkey |-> "none"]}

\* The state connect() works on, with what the call reports.
ConnState ==
    [proxies |-> proxies, nconn |-> nconn, res |-> "ok", ret |-> 0,
     made |-> FALSE]

\* connect(address, port, authkey, pubkey); reachable: the manager at the
\* location answers; fault names the call that raises (mgr.connect() or the
\* construction of the proxy).
ConnectOp(st, address, port, reachable, fault) ==
    LET location == Location(address, port)
        connected == [st EXCEPT !.nconn = st.nconn + 1, !.made = TRUE]
    IN  IF location \in DOMAIN st.proxies
        THEN [st EXCEPT !.ret = st.proxies[location]]
        ELSE IF Unreachable(reachable)
        THEN [st EXCEPT !.res = "RuntimeError"]
        ELSE IF fault = "connect"
        THEN [st EXCEPT !.res = "Exception"]
        ELSE IF fault = "proxy"
        THEN [connected EXCEPT !.res = "Exception"]
        ELSE [connected EXCEPT
                !.proxies = [l \in (DOMAIN st.proxies) \cup {location} |->
                                IF l = location THEN st.nconn + 1
                                ELSE st.proxies[l]],
                !.ret = st.nconn + 1]

\* The module as imported: _PROXIES = {}.
ConnInit ==
    /\ FactoryIdle
    /\ ServerIdle
    /\ StartIdle
    /\ ThreadsIdle
    /\ ExtIdle

\* A call of connect(). authkey and pubkey are read only where the manager
\* connection is made (line 555): they are kept with the record of the call.
Connect ==
    \E address \in Addresses, port \in Ports, key \in ConnectKeys,
       reachable \in BOOLEAN, fault \in ConnectFaults :
        /\ cncalls < MaxConnect
        /\ fault /= "none" =>
               (reachable /\ Location(address, port) \notin DOMAIN proxies)
        /\ \E r \in {ConnectOp(ConnState, address, port, reachable, fault)} :
               /\ proxies' = r.proxies
               /\ nconn' = r.nconn
               /\ clast' = [op |-> "connect", address |-> address,
                            port |-> port, alive |-> reachable, res |-> r.res,
                            ret |-> r.ret, made |-> r.made, key |-> key]
        /\ handed' = IF clast.op = "connect" /\ clast.res = "ok"
                     THEN handed \cup {[address |-> clast.address,
                                        port |-> clast.port,
                                        ret |-> clast.ret,
                                        made |-> clast.made,
                                        key |-> clast.key]}
                     ELSE handed
        /\ cncalls' = cncalls + 1
        /\ UNCHANGED connframe

ConnNext == Connect

SpecConnect == ConnInit /\ [][ConnNext]_vars

\* ------------------------------------------- load_model, statement by statement

\* Number of load_model calls the server threads start in one behaviour.
MaxLoadCalls == 3

\* if not self._allow_shell: raise; self._check_path(egg_filename, ...).
LoadGate(allow, root, path) ==
    IF ShellDenied(allow) THEN "RuntimeError_shell"
    ELSE IF ~CheckPath(root, path) THEN "RuntimeError_path"
    ELSE "ok"

LoadThread(t, pc, res) ==
    [lthreads EXCEPT ![t] = [@ EXCEPT !.pc = pc, !.res = res]]

\* A thread of the server starts load_model(egg_filename) and passes or fails
\* the shell gate and the path check.
LoadEnter(t) ==
    \E path \in Paths :
        /\ lthreads[t].pc = "idle"
        /\ lcalls < MaxLoadCalls
        /\ lcalls' = lcalls + 1
        /\ \E g \in {LoadGate(allow_shell, root_dir, path)} :
               lthreads' = LoadThread(t, IF g = "ok" THEN "test" ELSE "idle", g)
        /\ UNCHANGED <<hooks, replaced, srvvars, loadframe>>

\* if self.tlo:
LoadTest(t) ==
    /\ lthreads[t].pc = "test"
    /\ lthreads' = LoadThread(t, IF tlo /= 0 THEN "hook" ELSE "egg", "ok")
    /\ UNCHANGED <<hooks, replaced, lcalls, srvvars, loadframe>>

\* self.tlo.pre_delete(), on the object self.tlo refers to now.
LoadHook(t) ==
    /\ lthreads[t].pc = "hook"
    /\ hooks' = [hooks EXCEPT ![tlo] = @ + 1]
    /\ predel' = predel \cup {tlo}
    /\ lthreads' = LoadThread(t, "egg", "ok")
    /\ UNCHANGED <<replaced, lcalls, loadframe>>
    /\ UNCHANGED <<root_dir, allow_shell, tlo, nload, slast>>

\* Container.load_from_eggfile(egg_filename), which builds the new object or
\* raises.
LoadEgg(t) ==
    /\ lthreads[t].pc = "egg"
    /\ \/ /\ lthreads' = LoadThread(t, "idle", "Exception")
          /\ UNCHANGED <<nload, hooks>>
       \/ /\ nload < MaxModels
          /\ nload' = nload + 1
          /\ hooks' = [o \in (DOMAIN hooks) \cup {nload + 1} |->
                          IF o = nload + 1 THEN 0 ELSE hooks[o]]
          /\ lthreads' = [lthreads EXCEPT ![t] = [@ EXCEPT !.pc = "assign",
                                                           !.new = nload + 1]]
    /\ UNCHANGED <<replaced, lcalls, loadframe>>
    /\ UNCHANGED <<root_dir, allow_shell, tlo, predel, slast>>

\* self.tlo = <the new object>; return self.tlo.
LoadAssign(t) ==
    /\ lthreads[t].pc = "assign"
    /\ replaced' = IF tlo /= 0
                   THEN replaced \cup {[obj |-> tlo, hooked |-> hooks[tlo]]}
                   ELSE replaced
    /\ tlo' = lthreads[t].new
    /\ lthreads' = LoadThread(t, "idle", "ok")
    /\ UNCHANGED <<hooks, lcalls, loadframe>>
    /\ UNCHANGED <<root_dir, allow_shell, predel, nload, slast>>

LoadNext ==
    \E t \in Threads :
        \/ LoadEnter(t)
        \/ LoadTest(t)
        \/ LoadHook(t)
        \/ LoadEgg(t)
        \/ LoadAssign(t)

SpecLoad == SInit /\ [][LoadNext]_vars

\* ------------------------------------- execute_command, statement by statement

\* Largest timeout, in seconds, given to execute_command.
MaxExecTimeout == 2
\* Seconds after which the model stops following a wait without timeout.
MaxWait == 4
\* Number of execute_command calls in one behaviour.
MaxExecCalls == 2

PollDelays == {1, 2}

\* The timeout process.wait is given: process.wait(poll_delay, timeout).
WaitTimeout_Dropped(t) == 0
WaitTimeout(t) == t

\* The process whose wait() is running is still running.
Waiting == epc = "wait" /\ child = "running"

\* execute_command up to and including ShellProc(...): the shell gate, the
\* checks of the stream arguments and the creation of the process.
ExecCall ==
    \E caller \in ServerCallers, i \in StreamArgs, t \in 0 .. MaxExecTimeout,
       d \in PollDelays, spawnfail \in BOOLEAN :
        /\ epc = "idle"
        /\ ecalls < MaxExecCalls
        /\ spawnfail =>
               /\ ~ShellDenied(allow_shell)
               /\ i.isstr => CheckPath(root_dir, i)
        /\ \E r \in {ExecuteOp([Call("execute_command") EXCEPT
                                  !.caller = caller,
                                  !.streams = <<i, NotAName, NotAName>>],
                               allow_shell, root_dir,
                               <<i, NotAName, NotAName>>, spawnfail)} :
               /\ slast' = r
               /\ epc' = IF r.spawned THEN "wait" ELSE "idle"
               /\ child' = IF r.spawned THEN "running" ELSE "none"
               /\ eres' = IF r.spawned THEN "none" ELSE r.res
        /\ etimeout' = t
        /\ edelay' = d
        /\ waited' = 0
        /\ ecalls' = ecalls + 1
        /\ UNCHANGED <<root_dir, allow_shell, tlo, predel, nload, execframe>>

\* The command ends by itself.
ChildExit ==
    /\ child = "running"
    /\ child' = "exited"
    /\ UNCHANGED <<epc, etimeout, edelay, waited, eres, ecalls, srvvars,
                   execframe>>

\* process.wait: poll() finds the process ended; execute_command returns
\* (return_code, error_msg).
ExecPollDone ==
    /\ epc = "wait"
    /\ child = "exited"
    /\ epc' = "idle"
    /\ eres' = "code"
    /\ UNCHANGED <<etimeout, edelay, waited, child, ecalls, srvvars,
                   execframe>>

\* process.wait: the process is still running and the timeout has not passed
\* (or there is none): sleep poll_delay seconds.
ExecPollSleep ==
    /\ Waiting
    /\ ~(WaitTimeout(etimeout) > 0 /\ waited >= WaitTimeout(etimeout))
    /\ waited < MaxWait
    /\ waited' = waited + edelay
    /\ UNCHANGED <<epc, etimeout, edelay, child, eres, ecalls, srvvars,
                   execframe>>

\* process.wait: the process is still running after timeout seconds: it is
\* terminated and the timeout is reported.
ExecPollTimeout ==
    /\ Waiting
    /\ WaitTimeout(etimeout) > 0
    /\ waited >= WaitTimeout(etimeout)
    /\ child' = "terminated"
    /\ epc' = "idle"
    /\ eres' = "timeout"
    /\ UNCHANGED <<etimeout, edelay, waited, ecalls, srvvars, execframe>>

ExecNext ==
    \/ ExecCall
    \/ ChildExit
    \/ ExecPollDone
    \/ ExecPollSleep
    \/ ExecPollTimeout

SpecExec == SInit /\ [][ExecNext]_vars

\* ------------------------------------------------------ rbac: the access tags

\* Number of invocations in one behaviour.
MaxInvokes == 2

\* Roles a caller's credentials may be mapped to.
Roles == {"owner", "user", "other"}

\* The @rbac decorators of each method defined in ObjServerFactory, in order:
\* the role patterns of each decorator.
FactoryTags ==
    ("__init__" :> <<>>) @@
    ("echo" :> <<{"*"}>>) @@
    ("release" :> <<{"owner", "user"}>>) @@
    ("cleanup" :> <<{"owner"}>>) @@
    ("get_available_types" :> <<{"*"}>>) @@
    ("create" :> <<{"owner", "user"}>>)

RemoteFileTags_ReadForAll ==
    ("__init__" :> <<>>) @@
    ("__enter__" :> <<{"owner"}>>) @@
    ("__exit__" :> <<{"owner"}>>) @@
    ("close" :> <<{"owner"}>>) @@
    ("flush" :> <<{"owner"}>>) @@
    ("read" :> <<{"*"}>>) @@
    ("write" :> <<{"owner"}>>)
\* The @rbac decorators of each method of RemoteFile.
RemoteFileTags ==
    ("__init__" :> <<>>) @@
    ("__enter__" :> <<{"owner"}>>) @@
    ("__exit__" :> <<{"owner"}>>) @@
    ("close" :> <<{"owner"}>>) @@
    ("flush" :> <<{"owner"}>>) @@
    ("read" :> <<{"owner"}>>) @@
    ("write" :> <<{"owner"}>>)

\* The @rbac decorators of each method of ObjServer.
ServerTags ==
    ("__init__" :> <<>>) @@
    ("_reset_logging" :> <<>>) @@
    ("echo" :> <<{"*"}>>) @@
    ("create" :> <<{"owner"}>>) @@
    ("execute_command" :> <<{"owner"}>>) @@
    ("load_model" :> <<{"owner"}>>) @@
    ("pack_zipfile" :> <<{"owner"}>>) @@
    ("unpack_zipfile" :> <<{"owner"}>>) @@
    ("chmod" :> <<{"owner"}>>) @@
    ("open" :> <<{"owner"}>>) @@
    ("remove" :> <<{"owner"}>>) @@
    ("stat" :> <<{"owner"}>>) @@
    ("_check_path" :> <<>>)

Classes == {"ObjServerFactory", "RemoteFile", "ObjServer"}

RbacTags(cls) ==
    IF cls = "ObjServerFactory" THEN FactoryTags
    ELSE IF cls = "RemoteFile" THEN RemoteFileTags
    ELSE ServerTags

\* The role patterns a method was given by its decorators.
Patterns(tags) == UNION {tags[i] : i \in DOMAIN tags}

\* The access check of a call that arrives from the network: a method without
\* access tag is refused, a tagged one is admitted when one of its patterns
\* matches the caller's role.
CheckRole(tags, role) ==
    IF tags = <<>> THEN "RoleError"
    ELSE IF "*" \in Patterns(tags) \/ role \in Patterns(tags) THEN "ok"
    ELSE "RoleError"

\* A call of a method of one of the three classes arrives from the network.
Invoke ==
    \E cls \in Classes, role \in Roles :
        \E method \in DOMAIN RbacTags(cls) :
            /\ rcalls < MaxInvokes
            /\ rcalls' = rcalls + 1
            /\ rlast' = [op |-> "invoke", cls |-> cls, method |-> method, role |-> role,
                         res |-> CheckRole(RbacTags(cls)[method], role)]
            /\ UNCHANGED rbacframe

RbacNext == Invoke

SpecRbac == ConnInit /\ [][RbacNext]_vars

\* ------------------------------------------ main(), statement by statement

UsersFiles == {"missing", "empty", "ok"}
HostsFiles == {"missing", "empty", "unreadable", "ok"}

\* The allowed users are there: --allow-public, or the file exists and
\* read_authorized_keys returned some.
UsersOk_EmptyPasses(public, file) == public \/ file \in {"ok", "empty"}
UsersOk(public, file) == public \/ file = "ok"

\* The allowed hosts are there: port < 0, or the file exists, was read and
\* holds some.
HostsOk_EmptyPasses(ge0, file) == ~ge0 \/ file \in {"ok", "empty"}
HostsOk(ge0, file) == ~ge0 \/ file = "ok"

\* if retries < 10:
MainRetries == 10
RetryAllowed_OneMore(r) == r <= MainRetries
RetryAllowed(r) == r < MainRetries

SubRunning == mexit = "running"

\* sys.exit(status), or an exception that nothing catches.
SubEnd(how, why) ==
    /\ mpc' = "done"
    /\ mexit' = how
    /\ mwhy' = why

\* _cleanup(): the configuration file is removed unless OPENMDAO_KEEPDIRS
\* is non-zero.
Cleanup(keep, cfg) == IF ~keep THEN FALSE ELSE cfg

\* The process as started: nothing of main() executed yet.
SubInit ==
    /\ FactoryIdle
    /\ ServerIdle
    /\ StartIdle
    /\ ThreadsIdle
    /\ ConnectIdle
    /\ LoadIdle
    /\ ExecIdle
    /\ RbacIdle
    /\ DepIdle
    /\ mpc = "parse"
    /\ allow_public \in BOOLEAN
    /\ mport_ge0 \in BOOLEAN
    /\ users_file \in UsersFiles
    /\ hosts_file \in HostsFiles
    /\ mkeep \in BOOLEAN
    /\ mretries = 0
    /\ nfail = 0
    /\ manager_made = FALSE
    /\ bound = FALSE
    /\ handler = FALSE
    /\ mcfg = FALSE
    /\ mexit = "running"
    /\ mwhy = "none"
    /\ EntryIdle

\* parser.parse_args(); extra arguments end the process with status 1.
SubParseArgs ==
    /\ SubRunning
    /\ mpc = "parse"
    /\ \/ SubEnd("exit1", "arguments")
       \/ /\ mpc' = "key"
          /\ UNCHANGED <<mexit, mwhy>>
    /\ UNCHANGED <<allow_public, mport_ge0, users_file, hosts_file, mkeep,
                   mretries, nfail, manager_made, bound, handler, mcfg,
                   mainframe>>

\* The key file is read and removed when it exists.
SubReadKey ==
    /\ SubRunning
    /\ mpc = "key"
    /\ mpc' = "users"
    /\ UNCHANGED <<allow_public, mport_ge0, users_file, hosts_file, mkeep,
                   mretries, nfail, manager_made, bound, handler, mcfg,
                   mexit, mwhy, mainframe>>

\* Get allowed_users.
SubUsers ==
    /\ SubRunning
    /\ mpc = "users"
    /\ IF UsersOk(allow_public, users_file)
       THEN /\ mpc' = "hosts"
            /\ UNCHANGED <<mexit, mwhy>>
       ELSE SubEnd("exit1", "users")
    /\ UNCHANGED <<allow_public, mport_ge0, users_file, hosts_file, mkeep,
                   mretries, nfail, manager_made, bound, handler, mcfg,
                   mainframe>>

\* Get allowed_hosts, when port >= 0.
SubHosts ==
    /\ SubRunning
    /\ mpc = "hosts"
    /\ IF HostsOk(mport_ge0, hosts_file)
       THEN /\ mpc' = "manager"
            /\ UNCHANGED <<mexit, mwhy>>
       ELSE SubEnd("exit1", "hosts")
    /\ UNCHANGED <<allow_public, mport_ge0, users_file, hosts_file, mkeep,
                   mretries, nfail, manager_made, bound, handler, mcfg,
                   mainframe>>

\* manager = _FactoryManager(...); server = None; retries = 0.
SubManager ==
    /\ SubRunning
    /\ mpc = "manager"
    /\ mpc' = "bind"
    /\ manager_made' = TRUE
    /\ mretries' = 0
    /\ UNCHANGED <<allow_public, mport_ge0, users_file, hosts_file, mkeep,
                   nfail, bound, handler, mcfg, mexit, mwhy, mainframe>>

\* server = manager.get_server() returns.
SubBindOk ==
    /\ SubRunning
    /\ mpc = "bind"
    /\ bound' = TRUE
    /\ mpc' = "write_cfg"
    /\ UNCHANGED <<allow_public, mport_ge0, users_file, hosts_file, mkeep,
                   mretries, nfail, manager_made, handler, mcfg, mexit, mwhy,
                   mainframe>>

\* get_server raises socket.error 'Address already in use'.
SubBindInUse ==
    /\ SubRunning
    /\ mpc = "bind"
    /\ nfail' = nfail + 1
    /\ IF RetryAllowed(mretries)
       THEN /\ mretries' = mretries + 1
            /\ UNCHANGED <<mpc, mexit, mwhy>>
       ELSE /\ SubEnd("exit1", "retries")
            /\ UNCHANGED mretries
    /\ UNCHANGED <<allow_public, mport_ge0, users_file, hosts_file, mkeep,
                   manager_made, bound, handler, mcfg, mainframe>>

\* get_server raises another socket.error, which main() raises again.
SubBindError ==
    /\ SubRunning
    /\ mpc = "bind"
    /\ SubEnd("raised", "socket_error")
    /\ UNCHANGED <<allow_public, mport_ge0, users_file, hosts_file, mkeep,
                   mretries, nfail, manager_made, bound, handler, mcfg,
                   mainframe>>

\* write_server_config(server, _SERVER_CFG).
SubWriteConfig ==
    /\ SubRunning
    /\ mpc = "write_cfg"
    /\ mcfg' = TRUE
    /\ mpc' = "install"
    /\ UNCHANGED <<allow_public, mport_ge0, users_file, hosts_file, mkeep,
                   mretries, nfail, manager_made, bound, handler, mexit, mwhy,
                   mainframe>>

\* signal.signal(signal.SIGTERM, _sigterm_handler); server.serve_forever()
\* is entered.
SubInstallHandler ==
    /\ SubRunning
    /\ mpc = "install"
    /\ handler' = TRUE
    /\ mpc' = "serve"
    /\ UNCHANGED <<allow_public, mport_ge0, users_file, hosts_file, mkeep,
                   mretries, nfail, manager_made, bound, mcfg, mexit, mwhy,
                   mainframe>>

\* serve_forever() returns or raises: finally: _cleanup(), then sys.exit(0)
\* or the exception.
SubServeEnd ==
    /\ SubRunning
    /\ mpc = "serve"
    /\ mcfg' = Cleanup(mkeep, mcfg)
    /\ \/ SubEnd("exit0", "served")
       \/ SubEnd("raised", "served")
    /\ UNCHANGED <<allow_public, mport_ge0, users_file, hosts_file, mkeep,
                   mretries, nfail, manager_made, bound, handler, mainframe>>

\* SIGTERM arrives: _sigterm_handler when it is installed (_cleanup();
\* sys.exit(1)), the end of the process as it is when it is not.
SubSigterm ==
    /\ SubRunning
    /\ IF handler
       THEN /\ mcfg' = Cleanup(mkeep, mcfg)
            /\ SubEnd("exit1", "sigterm")
       ELSE /\ SubEnd("killed", "sigterm")
            /\ UNCHANGED mcfg
    /\ UNCHANGED <<allow_public, mport_ge0, users_file, hosts_file, mkeep,
                   mretries, nfail, manager_made, bound, handler, mainframe>>

SubNext ==
    \/ SubParseArgs
    \/ SubReadKey
    \/ SubUsers
    \/ SubHosts
    \/ SubManager
    \/ SubBindOk
    \/ SubBindInUse
    \/ SubBindError
    \/ SubWriteConfig
    \/ SubInstallHandler
    \/ SubServeEnd
    \/ SubSigterm

SpecMain == SubInit /\ [][SubNext]_vars

\* ------------------------------------------------ dep.py: the tree analyser

\* Number of calls on the tree analyser in one behaviour.
MaxDepCalls == 2
\* Number of times source files are written again in one behaviour.
MaxMtime == 1
\* Nested analyses followed before the interpreter's recursion limit is
\* taken to be hit.
MaxDepth == 4

\* What a source file holds, its statements in this order: 'class B(object)';
\* or 'from <from> import B'; or 'from <from> import B' and 'class C(B)'.
Sources == [kind : {"defines", "reexports", "uses"}, from : Mods]

\* The sources a module x may have; a file that only defines B imports
\* nothing.
SourcesOf(x) == {c \in Sources : c.kind = "defines" => c.from = x}

\* A class name modname.clsname.
ClassName(mod, cls) == [mod |-> mod, cls |-> cls]

\* PythonSourceFileAnalyser.classes of a file: the classes it defines.
ClassesOf(x) ==
    IF src[x].kind = "defines" THEN {ClassName(x, "B")}
    ELSE IF src[x].kind = "uses" THEN {ClassName(x, "C")}
    ELSE {}

\* PythonSourceFileAnalyser.localnames[B] of a file: visit_ImportFrom and
\* visit_ClassDef.
LocalB(x) ==
    IF src[x].kind = "defines" THEN ClassName(x, "B")
    ELSE ClassName(src[x].from, "B")

\* A file name as given to analyze_file: the file of a module, written as
\* an absolute or as a relative path.
PyPaths == [mod : Mods, form : {"abs", "rel"}]

\* os.path.abspath(os.path.expanduser(fname))
PyAbs(p) == [mod |-> p.mod, form |-> "abs"]

\* class_map[name] = value
MapPut(cm, name, value) ==
    [c \in (DOMAIN cm) \cup {name} |-> IF c = name THEN value ELSE cm[c]]

ClassInfo(name) == [alias |-> FALSE, to |-> name]
Alias(name) == [alias |-> TRUE, to |-> name]

\* find_classinfo(cname): the ClassInfo's name, "none" for a missing key, and
\* "loop" when the while loop has gone through more entries than class_map
\* has, which it does only on a cycle of names.
RECURSIVE FindFrom(_, _, _)
FindFrom(cm, cinfo, steps) ==
    IF cinfo \notin DOMAIN cm THEN "none"
    ELSE IF ~cm[cinfo].alias THEN "found"
    ELSE IF steps = 0 THEN "loop"
    ELSE FindFrom(cm, cm[cinfo].to, steps - 1)

FindClassInfo(cm, cname) == FindFrom(cm, cname, Cardinality(DOMAIN cm))

\* The tree analyser, with what the call under way returns or raises.
DepState ==
    [cm |-> class_map, fi |-> fileinfo, fc |-> files_count, an |-> analysed,
     res |-> "ok", ret |-> 0]

RECURSIVE AnalyzeFile(_, _, _)
RECURSIVE ResolveBases(_, _, _, _, _)

\* PythonSourceFileAnalyser(fname, tree_analyser) for the file of module x:
\* the visit of its class definitions, then update_graph.
FileAnalyser(st, x, depth) ==
    IF src[x].kind = "defines"
    THEN [st EXCEPT !.cm = MapPut(st.cm, ClassName(x, "B"),
                                  ClassInfo(ClassName(x, "B")))]
    ELSE IF src[x].kind = "reexports" THEN st
    ELSE LET base == LocalB(x)
             visited ==
                 ResolveBases([st EXCEPT !.cm = MapPut(st.cm, ClassName(x, "C"),
                                                       ClassInfo(ClassName(x, "C")))],
                              x, <<base>>, {}, depth)
         IN  IF visited.res /= "ok" THEN visited
             ELSE IF FindClassInfo(visited.cm, base) = "loop"
             THEN [visited EXCEPT !.res = "hang"]
             ELSE visited

\* visit_ClassDef: while undef_bases: base = undef_bases.pop(); ...
ResolveBases(st, x, undef_bases, unresolved, depth) ==
    IF st.res /= "ok" \/ undef_bases = <<>> THEN st
    ELSE LET base == undef_bases[Len(undef_bases)]
             rest == SubSeq(undef_bases, 1, Len(undef_bases) - 1)
             cinfo == FindClassInfo(st.cm, base)
         IN  IF cinfo = "loop" THEN [st EXCEPT !.res = "hang"]
             ELSE IF cinfo = "found"
             THEN ResolveBases(st, x, rest, unresolved, depth)
             ELSE LET fan == AnalyzeFile(st, [mod |-> base.mod, form |-> "abs"],
                                         depth)
                      newname == LocalB(base.mod)
                      aliased == [fan EXCEPT !.cm = MapPut(fan.cm, base,
                                                           Alias(newname))]
                  IN  IF fan.res /= "ok" THEN fan
                      ELSE IF base \in ClassesOf(base.mod)
                      THEN ResolveBases(fan, x, rest, unresolved, depth)
                      ELSE IF base.cls = "B"
                      THEN ResolveBases(
                               aliased, x,
                               IF newname \notin DOMAIN fan.cm
                                  /\ newname \notin unresolved
                               THEN Append(rest, newname) ELSE rest,
                               unresolved, depth)
                      ELSE ResolveBases(fan, x, rest, unresolved \cup {base},
                                        depth)

\* analyze_file(pyfile); depth: the nested analyses still followed.
AnalyzeFile(st, pyfile, depth) ==
    IF st.res /= "ok" THEN st
    ELSE IF pyfile \in DOMAIN st.fi
            /\ fmtime[pyfile.mod] <= st.fi[pyfile].mtime
    THEN [st EXCEPT !.ret = st.fi[pyfile].id]
    ELSE IF depth = 0 THEN [st EXCEPT !.res = "RuntimeError"]
    ELSE LET v == FileAnalyser(st, pyfile.mod, depth - 1)
             entry == [id |-> v.fc + 1, mtime |-> fmtime[pyfile.mod]]
         IN  IF v.res /= "ok" THEN v
             ELSE [v EXCEPT
                     !.fi = [p \in (DOMAIN v.fi) \cup {PyAbs(pyfile)} |->
                                IF p = PyAbs(pyfile) THEN entry ELSE v.fi[p]],
                     !.fc = v.fc + 1,
                     !.an = [v.an EXCEPT ![pyfile.mod] = entry],
                     !.ret = v.fc + 1]

\* remove_file(fname): the entries of class_map it deletes.
RemovedNames(cm, x) ==
    {c \in DOMAIN cm :
        IF cm[c].alias THEN c.mod = x \/ cm[c].to.mod = x
        ELSE c.mod = x}

\* remove_file(fname)
RemoveFile(st, fname) ==
    IF fname \notin DOMAIN st.fi THEN [st EXCEPT !.res = "KeyError"]
    ELSE [st EXCEPT
            !.fi = [p \in (DOMAIN st.fi) \ {fname} |-> st.fi[p]],
            !.cm = [c \in (DOMAIN st.cm) \ RemovedNames(st.cm, fname.mod) |->
                       st.cm[c]],
            !.an = [st.an EXCEPT ![fname.mod] = [id |-> 0, mtime |-> 0]]]

\* The source files as they are when the tree analyser is made.
DepInit ==
    /\ FactoryIdle
    /\ ServerIdle
    /\ StartIdle
    /\ ThreadsIdle
    /\ ConnectIdle
    /\ LoadIdle
    /\ ExecIdle
    /\ RbacIdle
    /\ MainIdle
    /\ src \in {f \in [Mods -> Sources] : \A x \in Mods : f[x] \in SourcesOf(x)}
    /\ fmtime = [x \in Mods |-> 0]
    /\ class_map = [c \in {} |-> 0]
    /\ fileinfo = [p \in {} |-> 0]
    /\ files_count = 0
    /\ analysed = [x \in Mods |-> [id |-> 0, mtime |-> 0]]
    /\ dcalls = 0
    /\ dlast = DNoCall
    /\ EntryIdle

\* The call under way has not come back: find_classinfo goes round a cycle.
DepHung == dlast.res = "hang"

DepCommit(r, call) ==
    /\ class_map' = r.cm
    /\ fileinfo' = r.fi
    /\ files_count' = r.fc
    /\ analysed' = r.an
    /\ dlast' = [call EXCEPT !.res = r.res, !.ret = r.ret]
    /\ dcalls' = dcalls + 1

\* A call of analyze_file(pyfile).
DepAnalyzeFile ==
    \E pyfile \in PyPaths :
        /\ ~DepHung
        /\ dcalls < MaxDepCalls
        /\ \E r \in {AnalyzeFile(DepState, pyfile, MaxDepth)} :
               DepCommit(r, [DNoCall EXCEPT
                               !.op = "analyze_file", !.mod = pyfile.mod,
                               !.form = pyfile.form, !.count0 = files_count,
                               !.fresh = /\ analysed[pyfile.mod].id /= 0
                                         /\ fmtime[pyfile.mod] <=
                                                analysed[pyfile.mod].mtime,
                               !.cached = analysed[pyfile.mod].id])
        /\ UNCHANGED <<src, fmtime, depframe>>

\* A call of remove_file(fname).
DepRemoveFile ==
    \E fname \in PyPaths :
        /\ ~DepHung
        /\ dcalls < MaxDepCalls
        /\ \E r \in {RemoveFile(DepState, fname)} :
               DepCommit(r, [DNoCall EXCEPT
                               !.op = "remove_file", !.mod = fname.mod,
                               !.form = fname.form, !.count0 = files_count])
        /\ UNCHANGED <<src, fmtime, depframe>>

\* The times the files of the modules in S have been written again.
RECURSIVE Touches(_, _)
Touches(mt, S) ==
    IF S = {} THEN 0
    ELSE LET x == CHOOSE y \in S : TRUE
         IN  mt[x] + Touches(mt, S \ {x})

\* A source file is written again with what it held.
DepTouch ==
    \E x \in Mods :
        /\ ~DepHung
        /\ Touches(fmtime, Mods) < MaxMtime
        /\ fmtime' = [fmtime EXCEPT ![x] = @ + 1]
        /\ UNCHANGED <<src, class_map, fileinfo, files_count, analysed, dcalls,
                       dlast, depframe>>

DepNext ==
    \/ DepAnalyzeFile
    \/ DepRemoveFile
    \/ DepTouch

SpecDep == DepInit /\ [][DepNext]_vars

\* ================================================================ claims
\* Factory claims are checked under Spec, ObjServer claims under SpecServer,
\* start_server claims under SpecStart and claims about concurrent factory
\* calls under SpecConc.

\* The last factory call was a release() that found its server in the
\* registry (by proxy identity or by host and pid).
ReleaseResolved == last.op = "release" /\ last.target /= 0

C6_SecondReleaseFails ==
    (last.op = "release" /\ last.stale) => last.res = "ValueError"

\* C6 witness: the second release, made through another reference with the
\* server's host and pid, raised ValueError.
C6_Witness ==
    /\ last.op = "release"
    /\ last.stale
    /\ last.server.alias
    /\ last.res = "ValueError"

\* C7: after cleanup() the registry is empty and every server that was
\* registered has been shut down.
C7_CleanupEmptiesRegistry ==
    last.op = "cleanup" =>
        /\ managers = EmptyReg
        /\ \A i \in 1 .. Len(last.order) : last.order[i] \notin alive

\* C8: when cleanup() returns or raises, the current credentials are those of
\* its caller.
C8_CredentialsRestored ==
    last.op = "cleanup" => creds = last.caller

\* C8 witness: a cleanup() that ran a release under other credentials than
\* its caller's, and in which that release raised.
C8_Witness ==
    /\ last.op = "cleanup"
    /\ last.res /= "ok"
    /\ \E r \in last.ran : r.res /= "ok" /\ r.under /= last.caller

\* C9: when a release inside cleanup() fails, the servers after it in the
\* iteration are still released by that cleanup(), each under its owner.
C9_LaterServersReleased ==
    last.op = "cleanup" =>
        \A i, j \in 1 .. Len(last.order) :
            (/\ i < j
             /\ \E r \in last.ran : r.pid = last.order[i] /\ r.res /= "ok") =>
                /\ last.order[j] \notin DOMAIN managers
                /\ \E r \in last.ran : r.pid = last.order[j] /\ r.res = "ok"

\* C10: the keys of the registry are exactly the live server subprocesses the
\* factory has spawned.
C10_RegistryIsLiveServers == DOMAIN managers = alive

\* The names a call handed to the sandbox: the path of a file operation or of
\* load_model, the stream names of execute_command.
GivenPaths ==
    IF slast.op = "execute_command"
    THEN {slast.streams[i] : i \in {k \in 1 .. 3 : slast.streams[k].isstr}}
    ELSE IF slast.op \in {"open", "remove", "stat", "chmod", "pack_zipfile",
                          "unpack_zipfile", "load_model"}
    THEN {slast.path}
    ELSE {}

\* C2: a sandboxed operation given a path outside the root directory fails
\* with the sandbox error, touches no file, spawns nothing and leaves the
\* server state as it was.
C2_OutsideRootRejected ==
    (\E q \in GivenPaths : ~Within(root_dir, AbsPath(root_dir, q))) =>
        /\ slast.res = "RuntimeError_path"
        /\ slast.touched = {}
        /\ ~slast.spawned
        /\ ~slast.hooked
        /\ tlo = slast.tlo0

\* C3: every path the sandbox check accepts is the root or a descendant of
\* the root by path segments.
C3_AcceptedIsWithinRoot ==
    \A q \in slast.accepted : Within(root_dir, AbsPath(root_dir, q))

\* C4 as stated: execute_command on a server without shell access raises
\* RoleError, having checked no path and spawned nothing.
C4_ShellDeniedRoleError ==
    (slast.op = "execute_command" /\ ~allow_shell) =>
        /\ slast.res = "RoleError"
        /\ slast.checked = 0
        /\ ~slast.spawned

\* C4 as amended: execute_command on a server without shell access raises
\* RuntimeError('shell access is not allowed by this server') for every
\* caller and all arguments, having checked no path, touched no file and
\* spawned nothing.
C4_ShellDeniedRuntimeError ==
    (slast.op = "execute_command" /\ ~allow_shell) =>
        /\ slast.res = "RuntimeError_shell"
        /\ slast.checked = 0
        /\ slast.accepted = {}
        /\ slast.touched = {}
        /\ ~slast.spawned

\* C4 witness: the call was refused although one of its stream names would
\* have failed the path check.
C4_Witness ==
    /\ slast.op = "execute_command"
    /\ ~allow_shell
    /\ slast.res = "RuntimeError_shell"
    /\ \E q \in GivenPaths : ~CheckPath(root_dir, q)

\* C5: load_model on a server without shell access fails, invokes no
\* pre_delete hook and leaves tlo as it was.
C5_LoadModelDenied ==
    (slast.op = "load_model" /\ ~allow_shell) =>
        /\ slast.res = "RuntimeError_shell"
        /\ ~slast.hooked
        /\ tlo = slast.tlo0
        /\ predel = {}

\* C5 witness: a load_model of a file inside the root was refused.
C5_Witness ==
    /\ slast.op = "load_model"
    /\ ~allow_shell
    /\ slast.res /= "ok"
    /\ Within(root_dir, AbsPath(root_dir, slast.path))

\* ------------------------------------------- factory claims: create, release

\* C12: a create() given a server spawns no subprocess, makes no directory
\* and leaves the registry as it was; when it returns an object, the create
\* was forwarded to the given server (its host and pid).
C12_GivenServerReused ==
    [][(last'.op = "create" /\ last'.hasserver) =>
          /\ managers' = managers
          /\ nspawn' = nspawn
          /\ alive' = alive
          /\ closers' = closers
          /\ dirs' = dirs
          /\ (last'.res = "ok" /\ last'.typname) =>
                 /\ last'.server.host = Local
                 /\ last'.fwd = last'.server.pid
                 /\ last'.retpid = last'.server.pid]_vars

\* C12 witness: an object was created in a registered server handed to
\* create().
C12_Witness ==
    /\ last.op = "create"
    /\ last.hasserver
    /\ last.typname
    /\ last.res = "ok"
    /\ last.server.pid \in DOMAIN managers
    /\ last.fwd = last.server.pid

\* C13: a create() without server that returns has added exactly one registry
\* entry, keyed by the proxy of the server it started; the entry holds the
\* started manager, the directory the call made, and as owner the credentials
\* the call was made with; every other entry is as it was.
C13_OneEntryForCaller ==
    [][(last'.op = "create" /\ ~last'.hasserver /\ last'.res = "ok") =>
          /\ nspawn' = nspawn + 1
          /\ nspawn' \notin DOMAIN managers
          /\ DOMAIN managers' = DOMAIN managers \cup {nspawn'}
          /\ \A p \in DOMAIN managers : managers'[p] = managers[p]
          /\ managers'[nspawn'].owner = last'.caller
          /\ managers'[nspawn'].root_dir \in dirs' \ dirs
          /\ nspawn' \in alive' \ alive]_vars

\* C13 witness: a second server was registered, for a caller whose
\* credentials are not those the factory was constructed under.
C13_Witness ==
    /\ last.op = "create"
    /\ ~last.hasserver
    /\ last.res = "ok"
    /\ Cardinality(DOMAIN managers) = 2
    /\ last.caller /= NoCreds
    /\ managers[nspawn].owner = last.caller

\* The server a returning create() worked in: the given one, or the one it
\* started.
CreateServerPid == IF last.hasserver THEN last.server.pid ELSE nspawn

\* C14: a create() with an empty typname forwards no create; when it returns,
\* it returns the server reference (the given server or the one it started).
\* With a non-empty typname a returning create() returns what the create
\* forwarded to that server returned.
C14_EmptyTypnameReturnsServer ==
    last.op = "create" =>
        /\ ~last.typname => last.fwd = 0
        /\ (~last.typname /\ last.res = "ok") =>
               /\ last.retkind = "server"
               /\ last.retpid = CreateServerPid
        /\ (last.typname /\ last.res = "ok") =>
               /\ last.retkind = "object"
               /\ last.fwd = CreateServerPid
               /\ last.retpid = CreateServerPid

\* C14 witness: a create() with an empty typname and no server returned the
\* server it started.
C14_Witness ==
    /\ last.op = "create"
    /\ ~last.typname
    /\ ~last.hasserver
    /\ last.res = "ok"
    /\ last.retkind = "server"
    /\ last.retpid = nspawn
    /\ nspawn \in DOMAIN managers

\* C16: a release() given a registered proxy resolves it without reading its
\* host or pid; given anything else, it works on the registered server with
\* the argument's host and pid and raises ValueError when there is none. The
\* ownership check is made against the owner of the entry so found, and a
\* release that returns has removed that entry and no other.
C16_ResolveIdentityThenHostPid ==
    [][last'.op = "release" =>
          LET s == last'.server
              hit == s.host = Local /\ s.pid \in DOMAIN managers
          IN  /\ ~hit => (last'.res = "ValueError" /\ managers' = managers)
              /\ (hit /\ ~s.alias) => last'.res /= "ValueError"
              /\ (hit /\ last'.caller.user /= managers[s.pid].owner.user) =>
                     /\ last'.res \in {"RoleError", "ValueError"}
                     /\ managers' = managers
              /\ (hit /\ last'.caller.user = managers[s.pid].owner.user) =>
                     last'.res /= "RoleError"
              /\ last'.res = "ok" =>
                     /\ hit
                     /\ DOMAIN managers' = DOMAIN managers \ {s.pid}
                     /\ \A p \in DOMAIN managers' : managers'[p] = managers[p]]_vars

\* C16 witness: a release() through a reference that is not a registry key
\* released the registered server with its host and pid, whose owner has the
\* caller's user but other key material, while another server stays
\* registered.
C16_Witness ==
    /\ last.op = "release"
    /\ last.server.alias
    /\ last.res = "ok"
    /\ last.target = last.server.pid
    /\ last.owner.user = last.caller.user
    /\ last.owner /= last.caller
    /\ last.target \notin DOMAIN managers
    /\ managers /= EmptyReg

\* C17: a release() that returns has shut the server's manager down,
\* cancelled the finalizer of its proxy and removed its registry entry; its
\* root directory is gone unless OPENMDAO_KEEPDIRS is non-zero, and is then
\* left in place; every other server, finalizer, entry and directory is as it
\* was.
C17_ReleaseEffects ==
    [][(last'.op = "release" /\ last'.res = "ok") =>
          LET t == last'.target
          IN  /\ t \in DOMAIN managers
              /\ alive' = alive \ {t}
              /\ closers' = closers \ {t}
              /\ DOMAIN managers' = DOMAIN managers \ {t}
              /\ \A p \in DOMAIN managers' : managers'[p] = managers[p]
              /\ dirs' = IF keep_dirs THEN dirs
                         ELSE dirs \ {managers[t].root_dir}]_vars

\* C17 witness: a release() removed the directory of its server and left
\* another server registered, alive and with its directory.
C17_Witness ==
    /\ last.op = "release"
    /\ last.res = "ok"
    /\ ~keep_dirs
    /\ last.target \notin DOMAIN managers \cup alive \cup closers
    /\ \E p \in DOMAIN managers :
           /\ p \in alive
           /\ managers[p].root_dir \in dirs

\* ------------------------------------------------------ start_server claims

C19_TimeoutKillsSubprocess ==
    sres = "timeout" => ~SubAlive

\* C19 witness: start_server has raised the startup timeout after killing a
\* subprocess that was still running and had not written prefix.cfg.
C19_Witness ==
    /\ spc = "done"
    /\ sres = "timeout"
    /\ sub = "killed"
    /\ retry = RetryFactor * timeout
    /\ timeout > 0

\* C20: when start_server has returned or raised after writing prefix.key,
\* prefix.key does not exist.
C20_KeyFileRemoved ==
    (spc = "done" /\ sexit \notin {"remove_old", "write_key"}) => ~key_file

\* ------------------------------------------------ concurrent factory calls

\* Thread t is inside the read-modify-write of the registry of its call:
\* create() from reading len(self._managers) to the assignment of the new
\* entry, release() from the lookup to the del, cleanup() from reading the
\* keys to the assignment of the empty registry.
InCritical(t) ==
    \/ threads[t].pc \in {"c_probe", "c_mkdir", "c_start", "c_register"}
    \/ threads[t].pc \in {"r_shutdown", "r_del"}
    \/ threads[t].pc = "k_next"
    \/ threads[t].inclean /\ threads[t].pc \in {"r_lookup", "r_rmtree"}

\* C11: create, release and cleanup are mutually exclusive on the registry:
\* no two threads are inside the registry read-modify-write of their calls
\* at the same time.
C11_RegistryMutualExclusion ==
    \A t1, t2 \in Threads :
        t1 /= t2 => ~(InCritical(t1) /\ InCritical(t2))

\* C15: no create() raises to its caller because the root directory it
\* computed exists, also when two create() calls run concurrently.
C15_DuplicateNameNotSurfaced ==
    \A t \in Threads :
        threads[t].op = "create" => threads[t].res /= "OSError"

\* ------------------------------------------------------------ connect claims

\* An earlier connect() that returned a proxy was given the location of the
\* last call: the same address and port, or the same address and a negative
\* port each.
EarlierSameLocation ==
    {h \in handed :
        /\ h.address = clast.address
        /\ (h.port = clast.port \/ (h.port < 0 /\ clast.port < 0))}

\* C21: a connect() to a location an earlier connect() returned a proxy for
\* returns that same proxy and makes no manager connection.
C21_SecondConnectSameProxy ==
    (clast.op = "connect" /\ EarlierSameLocation /= {}) =>
        /\ clast.res = "ok"
        /\ ~clast.made
        /\ \A h \in EarlierSameLocation : clast.ret = h.ret

\* C21 witness: a second connect() to a pipe address, given another negative
\* port than the first, returned the first one's proxy.
C21_Witness ==
    /\ clast.op = "connect"
    /\ clast.res = "ok"
    /\ clast.port < 0
    /\ \E h \in EarlierSameLocation : h.port /= clast.port /\ h.ret = clast.ret
    /\ nconn = 1

\* C22 as stated: every connect() to a location whose manager does not
\* answer raises and makes no connection.
C22_UnreachableRaises ==
    (clast.op = "connect" /\ ~clast.alive) =>
        /\ clast.res = "RuntimeError"
        /\ ~clast.made

\* C22 as amended: a connect() to a location that no earlier connect()
\* returned a proxy for, and whose manager does not answer, raises
\* RuntimeError, makes no connection and caches nothing; every connection
\* made and every proxy cached comes from a call whose manager answered. A
\* connect() to a cached location returns the cached proxy without checking
\* the manager.
C22_FreshUnreachableRaises ==
    /\ (clast.op = "connect" /\ ~clast.alive /\ EarlierSameLocation = {}) =>
           /\ clast.res = "RuntimeError"
           /\ ~clast.made
           /\ clast.ret = 0
           /\ Cardinality(DOMAIN proxies) <= Cardinality(handed)
    /\ clast.made => clast.alive
    /\ \A l \in DOMAIN proxies : proxies[l] \in 1 .. nconn
    /\ (clast.op = "connect" /\ ~clast.alive /\ EarlierSameLocation /= {}) =>
           clast.res = "ok"

\* C22 witness: a connect() to an unreachable location was refused while
\* another location is cached.
C22_Witness ==
    /\ clast.op = "connect"
    /\ ~clast.alive
    /\ EarlierSameLocation = {}
    /\ clast.res = "RuntimeError"
    /\ handed /= {}
    /\ Cardinality(DOMAIN proxies) = 1

\* --------------------------------------------------------- ObjServer claims

\* C23: every object load_model has replaced had its pre_delete hook invoked
\* exactly once, and before the new object was installed, also when two
\* callers run load_model on one server at the same time.
C23_PreDeleteOnceBeforeInstall ==
    \A r \in replaced : r.hooked = 1 /\ hooks[r.obj] = 1

\* C24: an execute_command call in which stdin, stdout or stderr names a file
\* outside the server root creates no subprocess.
C24_NoSpawnOutsideRoot ==
    (/\ slast.op = "execute_command"
     /\ \E i \in 1 .. 3 :
            /\ slast.streams[i].isstr
            /\ ~Within(root_dir, AbsPath(root_dir, slast.streams[i]))) =>
        ~slast.spawned

\* C25: an execute_command with timeout > 0 never goes on waiting for a
\* running child once timeout seconds have passed: it then ends with the
\* child terminated and the timeout reported; a timeout is reported in no
\* other case, and with timeout 0 the call returns only once the child has
\* ended by itself.
C25_TimeoutTerminatesChild ==
    /\ (Waiting /\ etimeout > 0) => waited < etimeout + edelay
    /\ eres = "timeout" =>
           /\ child = "terminated"
           /\ etimeout > 0
           /\ waited >= etimeout
    /\ child = "terminated" => eres = "timeout"
    /\ (slast.spawned /\ epc = "idle" /\ child /= "terminated") =>
           (child = "exited" /\ eres = "code")
    /\ (slast.spawned /\ etimeout = 0) => child /= "terminated"

\* C25 witness: a call with a timeout ended with the child terminated, and
\* before it one had been started.
C25_Witness ==
    /\ eres = "timeout"
    /\ child = "terminated"
    /\ epc = "idle"
    /\ etimeout = 1
    /\ edelay = 2
    /\ ecalls = 2

\* C26: no ObjServer operation, returning or raising, changes _allow_shell
\* or _root_dir: they keep the values the constructor gave them.
C26_ShellFlagAndRootFixed ==
    [][slast'.op \in {"echo", "create", "execute_command", "load_model",
                      "pack_zipfile", "unpack_zipfile", "open", "remove",
                      "stat", "chmod"} =>
          /\ allow_shell' = allow_shell
          /\ root_dir' = root_dir]_vars

\* C26 witness: on a server without shell access a load_model of an absolute
\* file name was refused.
C26_Witness ==
    /\ ~allow_shell
    /\ slast.op = "load_model"
    /\ slast.res = "RuntimeError_shell"
    /\ slast.caller.user = "u1"
    /\ slast.path.abs
    /\ slast.path.segs /= <<>>

\* ---------------------------------------------------------------- rbac claims

\* C27: a method that a call from the network is admitted to carries exactly
\* one access tag, a method without tag admits no call, and read, write,
\* close, flush, __enter__ and __exit__ of RemoteFile admit role 'owner' and
\* no other role.
C27_OneTagOwnerOnlyFiles ==
    /\ \A cls \in Classes : \A m \in DOMAIN RbacTags(cls) :
           Len(RbacTags(cls)[m]) <= 1
    /\ rlast.res = "ok" => Len(RbacTags(rlast.cls)[rlast.method]) = 1
    /\ (rlast.op = "invoke" /\ RbacTags(rlast.cls)[rlast.method] = <<>>) =>
           rlast.res = "RoleError"
    /\ (rlast.op = "invoke" /\ rlast.cls = "RemoteFile"
            /\ rlast.method \in {"read", "write", "close", "flush",
                                 "__enter__", "__exit__"}) =>
           (rlast.res = "ok" <=> rlast.role = "owner")

\* C27 witness: a read of a RemoteFile by a caller in role 'user' was refused
\* after another call.
C27_Witness ==
    /\ rlast.op = "invoke"
    /\ rlast.cls = "RemoteFile"
    /\ rlast.method = "read"
    /\ rlast.role = "user"
    /\ rlast.res = "RoleError"
    /\ rcalls = 2

\* ---------------------------------------------------------------- main() claims

\* C28: the configuration file exists only once get_server has returned the
\* server; and when the subprocess has ended because serve_forever ended or
\* because of SIGTERM, the configuration file is gone unless
\* OPENMDAO_KEEPDIRS is non-zero.
C28_CfgAfterBindRemovedOnShutdown ==
    /\ mcfg => bound
    /\ (mpc = "done" /\ mwhy \in {"served", "sigterm"} /\ ~mkeep) => ~mcfg

\* C29: when the allowed-hosts file is missing or empty with port >= 0, or
\* the allowed-users file is missing or empty without --allow-public, main()
\* gets no further than these checks: no manager is created, no
\* configuration file is written, and the exit it makes has status 1.
C29_BadAccessFilesExitEarly ==
    (\/ mport_ge0 /\ hosts_file \in {"missing", "empty"}
     \/ ~allow_public /\ users_file \in {"missing", "empty"}) =>
        /\ ~manager_made
        /\ ~bound
        /\ ~mcfg
        /\ mpc \in {"parse", "key", "users", "hosts", "done"}
        /\ mexit \notin {"exit0", "raised"}
        /\ mwhy \in {"users", "hosts"} => mexit = "exit1"
        /\ mwhy \in {"none", "arguments", "users", "hosts", "sigterm"}

\* C29 witness: main() has ended with status 1 at the check of an empty
\* allowed-hosts file, the allowed users being there.
C29_Witness ==
    /\ mpc = "done"
    /\ mwhy = "hosts"
    /\ mexit = "exit1"
    /\ hosts_file = "empty"
    /\ mport_ge0
    /\ ~allow_public
    /\ users_file = "ok"

\* C30: get_server is called again only after 'Address already in use' and
\* at most 10 times after the first call; the failure of the 10th retry ends
\* the subprocess with status 1 and no configuration file; another socket
\* error is raised by main() at once.
C30_BoundedBindRetries ==
    /\ mretries <= 10
    /\ nfail <= 11
    /\ SubRunning => mretries = nfail
    /\ mwhy = "retries" <=> nfail = 11
    /\ mwhy = "retries" =>
           /\ mexit = "exit1"
           /\ mretries = 10
           /\ ~bound
           /\ ~mcfg
    /\ mwhy = "socket_error" =>
           /\ mexit = "raised"
           /\ mpc = "done"
           /\ ~bound
           /\ ~mcfg

\* C30 witness: the subprocess has ended after the 10th retry failed.
C30_Witness ==
    /\ mpc = "done"
    /\ mwhy = "retries"
    /\ mexit = "exit1"
    /\ nfail = 11
    /\ ~mcfg

\* ------------------------------------------------ start_server: the polling loop

\* C31 as stated: the polling loop makes at most 10*timeout polls.
C31_AtMostTenTimeoutPolls ==
    retry <= 10 * timeout

\* C31 as amended: the polling loop always ends; it makes at most 10*timeout
\* polls, and one poll when timeout is 0; it ends by returning the process
\* with the configuration file non-empty, by raising the early-exit error
\* for a subprocess that has exited, or by raising the startup timeout after
\* the last poll.
C31_PollingLoopTerminates ==
    /\ [](retry <= IF timeout = 0 THEN 1 ELSE 10 * timeout)
    /\ []((spc \in {"finally", "done"} /\ sexit = "none") =>
             /\ sres \in {"proc", "failed", "timeout"}
             /\ sres = "failed" => sub = "exited"
             /\ sres = "timeout" =>
                    retry = (IF timeout = 0 THEN 1 ELSE 10 * timeout))
    /\ [][(spc = "poll" /\ spc' /= "poll" /\ sres' = "proc") =>
              cfg_file = "full"]_vars
    /\ (spc = "poll") ~> (spc = "done")

\* C31 witness: the loop has ended by the startup timeout after 10*timeout
\* polls, the subprocess having run all the while.
C31_Witness ==
    /\ spc = "done"
    /\ sres = "timeout"
    /\ timeout = 1
    /\ retry = 10
    /\ sub = "killed"
    /\ cfg_file = "empty"

\* ------------------------------------------------------------- dep.py claims

\* C32: an analyze_file for a file that has been analysed, and whose
\* modification time has not increased since, returns the analyser of that
\* analysis and leaves files_count as it was, however the file is named.
C32_AnalysedFileNotAnalysedAgain ==
    (dlast.op = "analyze_file" /\ dlast.fresh /\ dlast.res = "ok") =>
        /\ files_count = dlast.count0
        /\ dlast.ret = dlast.cached

\* C39: find_classinfo comes back for every class name in every class_map
\* that calls of analyze_file and remove_file produce: no chain of names in
\* class_map leads back to itself, and no call hangs in find_classinfo.
C39_FindClassInfoTerminates ==
    /\ \A c \in DOMAIN class_map : FindClassInfo(class_map, c) /= "loop"
    /\ ~DepHung

\* ------------------------------------------------- factory claims: failed release

\* C33: a release() that raises RoleError or ValueError leaves the registry,
\* the running servers, the pending finalizers and the directories as they
\* were.
C33_FailedReleaseChangesNothing ==
    [][(last'.op = "release" /\ last'.res \in {"RoleError", "ValueError"}) =>
          /\ managers' = managers
          /\ alive' = alive
          /\ closers' = closers
          /\ dirs' = dirs]_vars

\* C33 witness: a release() by another user than the owner was refused, the
\* server being registered and running with its directory and finalizer.
C33_Witness ==
    /\ last.op = "release"
    /\ last.res = "RoleError"
    /\ last.target \in DOMAIN managers
    /\ last.target \in alive \cap closers
    /\ managers[last.target].root_dir \in dirs
    /\ last.caller.user /= managers[last.target].owner.user

\* ------------------------------------- concurrent factory claims: cleanup

\* C34: a server registered by a create() that runs concurrently with
\* cleanup() is not lost: when no call is in progress, every server the
\* factory started and that is still running has its registry entry.
C34_ConcurrentCreateNotLost ==
    (\A t \in Threads : threads[t].pc \in {"idle", "done"}) =>
        \A pid \in alive : pid \in DOMAIN managers

\* ----------------------------------------------- ObjServer claims: tlo state

\* C35: the top-level object of an ObjServer is None or an object whose
\* pre_delete hook has not been invoked.
C35_TloNotTornDown == tlo = 0 \/ tlo \notin predel

\* -------------------------------------------- factory claims: root directories

\* C36: any two distinct registry entries have distinct root directories,
\* and the root directory of an entry that create() adds did not exist
\* before that call and exists after it.
C36_RootDirsDistinct ==
    /\ [](\A p, q \in DOMAIN managers :
             p /= q => managers[p].root_dir /= managers[q].root_dir)
    /\ [][\A p \in DOMAIN managers' \ DOMAIN managers :
             /\ managers'[p].root_dir \notin dirs
             /\ managers'[p].root_dir \in dirs']_vars

\* C36 witness: a create() returned whose name was taken by an existing
\* directory, so that the new entry's root directory carries a count suffix.
C36_Witness ==
    /\ last.op = "create"
    /\ last.res = "ok"
    /\ last.retpid \in DOMAIN managers
    /\ managers[last.retpid].root_dir.n > 1
    /\ [base |-> managers[last.retpid].root_dir.base, n |-> 1] \in dirs

\* ------------------------------------------- start_server claims: stale file

\* C37: prefix.cfg does not exist when the subprocess is spawned, and
\* start_server returns the process only when the subprocess it spawned has
\* written prefix.cfg.
C37_ReturnsForOwnConfig ==
    /\ (spc = "spawn" => cfg_file = "absent")
    /\ (sres = "proc" =>
            \/ sub = "serving"
            \/ sub = "exited" /\ ~early_exit)

\* C37 witness: start_server was entered with a prefix.cfg of an earlier
\* server in place and has returned the process after the new subprocess
\* wrote its own.
C37_Witness ==
    /\ stale_cfg
    /\ spc = "done"
    /\ sres = "proc"
    /\ sub = "serving"
    /\ cfg_file = "full"

\* ------------------------------------------------- connect claims: the keys

\* C38: the proxy a connect() returns was established by a manager
\* connection made with the authkey and pubkey of that call, and its manager
\* answers at the time of the call.
C38_ProxyEstablishedWithCallKeys ==
    (clast.op = "connect" /\ clast.res = "ok") =>
        /\ clast.alive
        /\ \A h \in handed :
               (h.made /\ h.ret = clast.ret) => h.key = clast.key

====
